---- MODULE Spec2Model ----
(***************************************************************************)
(* State-machine model of bombe-core: the SQLite graph store               *)
(* (store/database.rs, store/schema.rs) and the query planner cache        *)
(* (query/planner.rs).                                                     *)
(*                                                                         *)
(* The store is a database file: every Database method opens its own       *)
(* connection and runs its statements in autocommit mode, so the atomic    *)
(* step of the store is one SQL statement, and calls made through          *)
(* different connections interleave statement by statement.  The planner   *)
(* cache is a map behind a mutex: its atomic step is one lock scope.       *)
(*                                                                         *)
(* Each subsystem has its own specification (SpecEpoch, SpecStore,         *)
(* SpecPlanner); the variables of the other subsystems stay unchanged.     *)
(***************************************************************************)
EXTENDS Integers, Sequences, FiniteSets, TLC

VARIABLES
    \* ---- repo_meta['cache_epoch'] and the calls that read and write it
    epoch,      \* <<>> when repo_meta has no cache_epoch row, else <<text>>
    epc,        \* per caller: position inside get_cache_epoch / bump_cache_epoch
    ecur,       \* per caller: `current` read by bump_cache_epoch's SELECT
    ecalls,     \* number of calls started
    e0,         \* history: the stored epoch when the run began (0: no row)
    bumpRets,   \* history: the values returned by bump_cache_epoch, in order
    lastRet,    \* history: the value most recently returned by either call
    \* ---- QueryPlanner: the cache behind its mutex, and its callers
    cache,      \* IndexMap<String, CacheEntry>: entries in map order
    now,        \* Instant::now(), in ticks
    ppc,        \* per thread: position inside get_or_compute_with_trace
    preq,       \* per thread: the request (tool_name, payload, version_token)
    pexp,       \* per thread: `expires_at` computed after compute returned
    pcalls,     \* number of get_or_compute calls started
    statsSeen,  \* <<n>> when the latest step was stats() returning n entries
    recency,    \* history: cached keys, least recently hit or inserted first
    lastHit,    \* <<hit>> when the latest step returned a cache_hit
    lastEvict,  \* the removals made by the latest step's capacity eviction
    \* ---- the graph store: tables, and the calls in progress on connections
    files,      \* files: the set of path values
    symbols,    \* symbols rows [id, qn, fp, parent]
    parameters, \* parameters rows [sid, pos]
    fts,        \* symbol_fts rows [sid, qn]
    edges,      \* edges rows [src, tgt, fp]
    deps,       \* external_deps rows [id, fp, mod]
    nextSymId,  \* sqlite_sequence of symbols: the next AUTOINCREMENT id
    nextDepId,  \* sqlite_sequence of external_deps
    spc,        \* per connection: the statement its call executes next
    sloc,       \* per connection: the call's arguments and locals
    spre,       \* history, per replacement: the path's rows when it began
    solo,       \* history, per connection: no other call has overlapped it
    scalls,     \* number of store calls started
    sret,       \* <<r>> when the latest step returned from a call
    \* ---- FederatedQueryExecutor: one fan-out over the shards of a plan
    fpc,        \* position of the executor: idle, loop, wait
    fkind,      \* execute_search / execute_references / execute_blast_radius
    fplan,      \* shard_ids of the plan
    fidx,       \* index of the shard the loop is at
    fresults,   \* all_results
    freports,   \* shard_reports
    ffailed,    \* shards_failed
    fnow,       \* Instant::now(), in ticks
    fstarted,   \* shard_started of the shard call in progress
    freturned,  \* history: what each shard call of the fan-out returned
    fcalls,     \* number of fan-outs started
    fresp,      \* <<r>> when the latest step returned the response r
    \* ---- expand(): the breadth-first expansion of context assembly
    xpc,        \* position of expand: idle, loop, done (left by break)
    xedges,     \* the (source_id, target_id) rows of the edges table
    xdepth,     \* depth
    xmaxNodes,  \* max_nodes
    reached,    \* reached: HashMap<symbol id, depth>
    queue,      \* queue: VecDeque<(symbol id, depth)>
    cancelled,  \* the caller has signalled cancellation
    sinceCancel,\* history: loop iterations begun since cancellation
    xcalls,     \* number of expand calls started
    xret,       \* <<m>> when the latest step returned Ok(m)
    \* ---- migrate_schema on one connection
    mver,       \* repo_meta row of key schema_version: <<>> or <<text>>
    mapplied,   \* the effects of migration statements that are in place
    mhistory,   \* migration_history rows, in insertion order
    mpc,        \* position of migrate_schema: idle, loop
    mcur,       \* current_version
    mstart,     \* history: <<version and database when the call began>>
    mcalls,     \* number of migrate_schema calls started
    mret,       \* <<r>> when the latest step returned r
    \* ---- get_context_impl: the packing loop
    cpc,        \* position of get_context_impl: idle, loop
    corder,     \* topo_order, each id with its row of ranked_symbols
    creq,       \* token_budget as requested
    csigonly,   \* include_signatures_only
    cbudget,    \* clamped_budget
    ccap,       \* dynamic_node_cap
    cidx,       \* index of the loop in topo_order
    cst,        \* tokens_used, included_symbols, seen_bundle_keys,
                \* duplicate_skips, total_redaction_hits
    cresp,      \* <<payload>> when the latest step returned it
    \* ---- get_blast_radius_impl and change_impact_impl
    tpc,        \* position of the traversal: idle, loop, done (left by break)
    tengine,    \* blast_radius or change_impact
    tsymbols,   \* the rows of the symbols table that carry the names asked
    ttable,     \* the CALLS rows (source_id, target_id) of the edges table
    tname,      \* symbol_name as passed
    ttarget,    \* <<id>> of the resolved target, <<>> before resolution
    treq,       \* max_depth as passed
    tdepth,     \* the depth bound the loop compares with
    tvcap,      \* dynamic_visited_cap
    tecap,      \* dynamic_edge_cap
    twalk,      \* queue, visited, and the callers reported so far
    tret,       \* <<r>> when the latest step returned the report r
    \* ---- ShardCatalog, ShardRouter and post_index_cross_repo_sync
    kshards,    \* catalog table shards: repo_id -> enabled
    kexported,  \* catalog table exported_symbols
    kedges,     \* catalog table cross_repo_edges, in id order
    rpool,      \* connection_pool: the repo ids that have a pooled Database
    rorder,     \* history: the pooled repo ids, oldest insertion first
    rret,       \* <<r>> when the latest step returned r
    \* ---- build_call_edges
    gcalls,     \* the call sites of the file, as extracted
    gedges,     \* <<edges>> once build_call_edges has returned
    \* ---- trace_data_flow_impl
    flow,       \* the trace in progress: position, arguments, queue, seen, nodes, paths, response
    \* ---- build_parameters
    extract     \* the call of build_parameters and what it returned

epochVars == <<epoch, epc, ecur, ecalls, e0, bumpRets, lastRet>>

plannerVars == <<cache, now, ppc, preq, pexp, pcalls, statsSeen, recency,
                 lastHit, lastEvict>>

storeVars == <<files, symbols, parameters, fts, edges, deps, nextSymId,
               nextDepId, spc, sloc, spre, solo, scalls, sret>>

fedVars == <<fpc, fkind, fplan, fidx, fresults, freports, ffailed, fnow,
             fstarted, freturned, fcalls, fresp>>

expandVars == <<xpc, xedges, xdepth, xmaxNodes, reached, queue, cancelled,
                sinceCancel, xcalls, xret>>

migrateVars == <<mver, mapplied, mhistory, mpc, mcur, mstart, mcalls, mret>>

contextVars == <<cpc, corder, creq, csigonly, cbudget, ccap, cidx, cst,
                 cresp>>

walkVars == <<tpc, tengine, tsymbols, ttable, tname, ttarget, treq, tdepth,
               tvcap, tecap, twalk, tret>>

shardVars == <<kshards, kexported, kedges, rpool, rorder, rret>>

callgraphVars == <<gcalls, gedges>>

flowVars == <<flow>>

extractVars == <<extract>>

vars ==
    <<epochVars, plannerVars, storeVars, fedVars, expandVars,
      migrateVars, contextVars, walkVars, shardVars, callgraphVars,
      flowVars, extractVars>>

\* What the calls of one subsystem leave alone.
notEpochVars ==
    <<plannerVars, storeVars, fedVars, expandVars, migrateVars,
      contextVars, walkVars, shardVars, callgraphVars, flowVars,
      extractVars>>
notPlannerVars ==
    <<epochVars, storeVars, fedVars, expandVars, migrateVars,
      contextVars, walkVars, shardVars, callgraphVars, flowVars,
      extractVars>>
notStoreVars ==
    <<epochVars, plannerVars, fedVars, expandVars, migrateVars,
      contextVars, walkVars, shardVars, callgraphVars, flowVars,
      extractVars>>
notFedVars ==
    <<epochVars, plannerVars, storeVars, expandVars, migrateVars,
      contextVars, walkVars, shardVars, callgraphVars, flowVars,
      extractVars>>
notExpandVars ==
    <<epochVars, plannerVars, storeVars, fedVars, migrateVars,
      contextVars, walkVars, shardVars, callgraphVars, flowVars,
      extractVars>>
notMigrateVars ==
    <<epochVars, plannerVars, storeVars, fedVars, expandVars,
      contextVars, walkVars, shardVars, callgraphVars, flowVars,
      extractVars>>
notContextVars ==
    <<epochVars, plannerVars, storeVars, fedVars, expandVars,
      migrateVars, walkVars, shardVars, callgraphVars, flowVars,
      extractVars>>
notWalkVars ==
    <<epochVars, plannerVars, storeVars, fedVars, expandVars,
      migrateVars, contextVars, shardVars, callgraphVars, flowVars,
      extractVars>>
notShardVars ==
    <<epochVars, plannerVars, storeVars, fedVars, expandVars,
      migrateVars, contextVars, walkVars, callgraphVars, flowVars,
      extractVars>>
notCallgraphVars ==
    <<epochVars, plannerVars, storeVars, fedVars, expandVars,
      migrateVars, contextVars, walkVars, shardVars, flowVars,
      extractVars>>
notFlowVars ==
    <<epochVars, plannerVars, storeVars, fedVars, expandVars,
      migrateVars, contextVars, walkVars, shardVars, callgraphVars,
      extractVars>>
notExtractVars ==
    <<epochVars, plannerVars, storeVars, fedVars, expandVars,
      migrateVars, contextVars, walkVars, shardVars, callgraphVars,
      flowVars>>

(***************************************************************************)
(* Bounds                                                                  *)
(***************************************************************************)
MaxInitEpoch == 2
MaxEpochCalls == 4
MaxEntries == 1         \* QueryPlanner.max_entries of the modelled planner
TtlTicks == 2           \* QueryPlanner.ttl_seconds, in ticks
MaxTime == 2            \* the clock stops here
MaxPlannerCalls == 3
MaxStoreCalls == 3
MaxPlanShards == 2      \* longest shard_ids list of a plan
ShardTimeoutTicks == 1  \* FEDERATED_SHARD_TIMEOUT_MS, in ticks
MaxFedTime == 2         \* the executor's clock stops here
MaxFedCalls == 1
MaxExpandDepth == 3     \* largest expansion depth asked for
MaxExpandCalls == 1
CancelGrace == 1        \* iterations a cancelled loop may still begin
MaxMigrateCalls == 2
MaxCtxSymbols == 3      \* longest topology order packed
MaxConnections == 2     \* max_connections the router is constructed with

EpochCallers == {"c1", "c2", "c3"}

Max(a, b) == IF a >= b THEN a ELSE b

(***************************************************************************)
(* i64 <-> decimal text, as i64::to_string and str::parse::<i64> do it.    *)
(* A text is a sequence of digits; only non-negative values are written.   *)
(***************************************************************************)
RECURSIVE I64ToString(_)
I64ToString(n) ==
    IF n < 10 THEN <<n>> ELSE Append(I64ToString(n \div 10), n % 10)

RECURSIVE ParseDigits(_, _)
ParseDigits(s, acc) ==
    IF s = <<>> THEN acc ELSE ParseDigits(Tail(s), acc * 10 + Head(s))

\* str::parse::<i64>: Err on the empty text, else the value.
ParseI64(s) ==
    IF s = <<>> THEN [ok |-> FALSE, val |-> 0]
    ELSE [ok |-> TRUE, val |-> ParseDigits(s, 0)]

\* `.unwrap_or(d)` on the parse result.
ParseOr(s, d) == IF ParseI64(s).ok THEN ParseI64(s).val ELSE d

(***************************************************************************)
(* repo_meta                                                               *)
(***************************************************************************)
\* INSERT INTO repo_meta ... ON CONFLICT(key) DO UPDATE SET value = excluded.value
SetRepoMeta(value) == <<value>>

\* get_cache_epoch, Some(v) arm: parse, default 1, floor 1.
EpochOfRow(v) ==
    LET parsed == ParseOr(v, 1) IN IF parsed < 1 THEN 1 ELSE parsed

\* bump_cache_epoch's `current`: the parsed row, 0 when there is no row.
BumpCurrent(row) == IF row = <<>> THEN 0 ELSE ParseOr(row[1], 0)

\* bump_cache_epoch's `next_epoch`.
NextEpoch(current) == Max(1, current + 1)

\* The stored epoch as a number (0: no row).
StoredEpoch == BumpCurrent(epoch)

InitEpoch ==
    /\ epoch \in {<<>>} \cup {<<I64ToString(e)>> : e \in 1..MaxInitEpoch}
    /\ epc = [c \in EpochCallers |-> "idle"]
    /\ ecur = [c \in EpochCallers |-> 0]
    /\ ecalls = 0
    /\ e0 = BumpCurrent(epoch)
    /\ bumpRets = <<>>
    /\ lastRet = 0

\* bump_cache_epoch, first statement: SELECT value FROM repo_meta.
BumpSelect(c) ==
    /\ epc[c] = "idle"
    /\ ecalls < MaxEpochCalls
    /\ ecalls' = ecalls + 1
    /\ ecur' = [ecur EXCEPT ![c] = BumpCurrent(epoch)]
    /\ epc' = [epc EXCEPT ![c] = "bump_upsert"]
    /\ UNCHANGED <<epoch, e0, bumpRets, lastRet>>
    /\ UNCHANGED notEpochVars

\* bump_cache_epoch, second statement: the upsert of next_epoch; returns it.
BumpUpsert(c) ==
    /\ epc[c] = "bump_upsert"
    /\ LET next_epoch == NextEpoch(ecur[c]) IN
        /\ epoch' = SetRepoMeta(I64ToString(next_epoch))
        /\ bumpRets' = Append(bumpRets, next_epoch)
        /\ lastRet' = next_epoch
    /\ epc' = [epc EXCEPT ![c] = "idle"]
    /\ UNCHANGED <<ecur, ecalls, e0>>
    /\ UNCHANGED notEpochVars

\* get_cache_epoch, get_repo_meta("cache_epoch"): a row returns at once,
\* no row goes on to seed.
GetRead(c) ==
    /\ epc[c] = "idle"
    /\ ecalls < MaxEpochCalls
    /\ ecalls' = ecalls + 1
    /\ IF epoch = <<>>
         THEN /\ epc' = [epc EXCEPT ![c] = "get_seed"]
              /\ UNCHANGED lastRet
         ELSE /\ lastRet' = EpochOfRow(epoch[1])
              /\ UNCHANGED epc
    /\ UNCHANGED <<epoch, ecur, e0, bumpRets>>
    /\ UNCHANGED notEpochVars

\* get_cache_epoch, None arm: set_repo_meta("cache_epoch", "1"); returns 1.
GetSeed(c) ==
    /\ epc[c] = "get_seed"
    /\ epoch' = SetRepoMeta(I64ToString(1))
    /\ lastRet' = 1
    /\ epc' = [epc EXCEPT ![c] = "idle"]
    /\ UNCHANGED <<ecur, ecalls, e0, bumpRets>>
    /\ UNCHANGED notEpochVars

NextEpochCalls ==
    \E c \in EpochCallers :
        \/ BumpSelect(c)
        \/ BumpUpsert(c)
        \/ GetRead(c)
        \/ GetSeed(c)


(***************************************************************************)
(* QueryPlanner (query/planner.rs)                                         *)
(***************************************************************************)
PlannerThreads == {"t1", "t2"}

\* A request: tool_name, version_token (<<>> is None) and the payload dict,
\* here always {"q": <text>}.
Requests ==
    { [tool |-> "search", token |-> <<>>,    q |-> "a"],
      [tool |-> "search", token |-> <<"2">>, q |-> "a"],
      [tool |-> "refs",   token |-> <<>>,    q |-> "a"] }

\* The request slot of a thread that is not inside a call.
NoRequest == [tool |-> "", token |-> <<>>, q |-> ""]

\* json.dumps(payload, sort_keys=True, separators=(",", ":"))
CanonicalJson(req) == "{\"q\":\"" \o req.q \o "\"}"

C28_NoTokenMutant(req) == req.tool \o ":" \o CanonicalJson(req)

\* _cache_key: format!("{tool_name}:{suffix}:{normalized_str}")
CacheKey(req) ==
    LET suffix == IF req.token = <<>> THEN "default" ELSE req.token[1]
    IN  req.tool \o ":" \o suffix \o ":" \o CanonicalJson(req)

Keys(c) == { c[i].key : i \in 1..Len(c) }

\* IndexMap::get_index_of (0: absent)
IndexOfKey(c, k) ==
    IF k \in Keys(c) THEN CHOOSE i \in 1..Len(c) : c[i].key = k ELSE 0

\* IndexMap::shift_remove
ShiftRemove(c, k) == SelectSeq(c, LAMBDA e : e.key # k)

\* IndexMap::insert: a present key keeps its place and gets the new value,
\* a new key goes to the end.
MapInsert(c, e) ==
    IF e.key \in Keys(c) THEN [c EXCEPT ![IndexOfKey(c, e.key)] = e]
    ELSE Append(c, e)

\* _evict_expired's filter: entry.expires_at <= now
IsExpired(e, t) == e.expires_at <= t

\* _evict_expired, one lock scope
EvictExpired(c, t) == SelectSeq(c, LAMBDA e : ~IsExpired(e, t))

C10_IsLiveMutant(e, t) == e.expires_at >= t

\* the hit test: entry.expires_at > Instant::now()
IsLive(e, t) == e.expires_at > t

\* _evict_over_capacity, one lock scope: shift_remove_index(0) while over
RECURSIVE EvictOverCapacity(_)
EvictOverCapacity(c) ==
    IF Len(c) > MaxEntries THEN EvictOverCapacity(Tail(c)) ELSE c

\* History: the removals of EvictOverCapacity(c), each with the key that was
\* least recently hit or inserted when it was removed.
RECURSIVE EvictionLog(_, _)
EvictionLog(c, rec) ==
    IF Len(c) > MaxEntries
    THEN <<[key |-> c[1].key, lru |-> Head(rec)]>>
            \o EvictionLog(Tail(c), SelectSeq(rec, LAMBDA k : k # c[1].key))
    ELSE <<>>

Touch(rec, k) == Append(SelectSeq(rec, LAMBDA x : x # k), k)

InitPlanner ==
    /\ cache = <<>>
    /\ now = 0
    /\ ppc = [t \in PlannerThreads |-> "idle"]
    /\ preq = [t \in PlannerThreads |-> NoRequest]
    /\ pexp = [t \in PlannerThreads |-> 0]
    /\ pcalls = 0
    /\ statsSeen = <<>>
    /\ recency = <<>>
    /\ lastHit = <<>>
    /\ lastEvict = <<>>

\* Time passes between any two steps.
Tick ==
    /\ now < MaxTime
    /\ now' = now + 1
    /\ statsSeen' = <<>> /\ lastHit' = <<>> /\ lastEvict' = <<>>
    /\ UNCHANGED <<cache, ppc, preq, pexp, pcalls, recency>>
    /\ UNCHANGED notPlannerVars

\* get_or_compute_with_trace, entry: the key, then self._evict_expired().
CallEvictExpired(t, req) ==
    /\ ppc[t] = "idle"
    /\ pcalls < MaxPlannerCalls
    /\ pcalls' = pcalls + 1
    /\ preq' = [preq EXCEPT ![t] = req]
    /\ cache' = EvictExpired(cache, now)
    /\ recency' = SelectSeq(recency, LAMBDA k : k \in Keys(cache'))
    /\ ppc' = [ppc EXCEPT ![t] = "lookup"]
    /\ statsSeen' = <<>> /\ lastHit' = <<>> /\ lastEvict' = <<>>
    /\ UNCHANGED <<now, pexp>>
    /\ UNCHANGED notPlannerVars

\* The lookup lock scope: a live entry is moved to the tail and returned
\* ("cache_hit"); otherwise the call goes on to compute.
Lookup(t) ==
    /\ ppc[t] = "lookup"
    /\ LET k == CacheKey(preq[t])
           i == IndexOfKey(cache, k)
       IN IF i # 0 /\ IsLive(cache[i], now)
            THEN /\ cache' = Append(ShiftRemove(cache, k), cache[i])
                 /\ recency' = Touch(recency, k)
                 /\ lastHit' = <<[key |-> k, value |-> cache[i].value,
                                  request |-> preq[t],
                                  at |-> now,
                                  expires_at |-> cache[i].expires_at,
                                  inserted_at |-> cache[i].inserted_at]>>
                 /\ ppc' = [ppc EXCEPT ![t] = "idle"]
                 /\ preq' = [preq EXCEPT ![t] = NoRequest]
            ELSE /\ ppc' = [ppc EXCEPT ![t] = "compute"]
                 /\ lastHit' = <<>>
                 /\ UNCHANGED <<cache, recency, preq>>
    /\ statsSeen' = <<>> /\ lastEvict' = <<>>
    /\ UNCHANGED <<now, pexp, pcalls>>
    /\ UNCHANGED notPlannerVars

\* compute.call0()?, outside any lock: an exception ends the call; a result
\* is followed by expires_at = Instant::now() + ttl.
Compute(t) ==
    /\ ppc[t] = "compute"
    /\ \E raised \in BOOLEAN :
         IF raised
           THEN /\ ppc' = [ppc EXCEPT ![t] = "idle"]
                /\ preq' = [preq EXCEPT ![t] = NoRequest]
                /\ UNCHANGED pexp
           ELSE /\ pexp' = [pexp EXCEPT ![t] = now + TtlTicks]
                /\ ppc' = [ppc EXCEPT ![t] = "insert"]
                /\ UNCHANGED preq
    /\ statsSeen' = <<>> /\ lastHit' = <<>> /\ lastEvict' = <<>>
    /\ UNCHANGED <<cache, now, pcalls, recency>>
    /\ UNCHANGED notPlannerVars

\* The insert lock scope: cache.insert(cache_key, CacheEntry {..}).
Insert(t) ==
    /\ ppc[t] = "insert"
    /\ LET k == CacheKey(preq[t]) IN
        /\ cache' = MapInsert(cache, [key |-> k, value |-> preq[t],
                                      expires_at |-> pexp[t],
                                      inserted_at |-> now])
        /\ recency' = Touch(recency, k)
    /\ ppc' = [ppc EXCEPT ![t] = "evict"]
    /\ statsSeen' = <<>> /\ lastHit' = <<>> /\ lastEvict' = <<>>
    /\ UNCHANGED <<now, preq, pexp, pcalls>>
    /\ UNCHANGED notPlannerVars

\* self._evict_over_capacity(), its own lock scope; then "cache_miss".
CallEvictOverCapacity(t) ==
    /\ ppc[t] = "evict"
    /\ cache' = EvictOverCapacity(cache)
    /\ recency' = SelectSeq(recency, LAMBDA k : k \in Keys(cache'))
    /\ lastEvict' = EvictionLog(cache, recency)
    /\ ppc' = [ppc EXCEPT ![t] = "idle"]
    /\ preq' = [preq EXCEPT ![t] = NoRequest]
    /\ pexp' = [pexp EXCEPT ![t] = 0]
    /\ statsSeen' = <<>> /\ lastHit' = <<>>
    /\ UNCHANGED <<now, pcalls>>
    /\ UNCHANGED notPlannerVars

\* stats(): cache.len() under the lock.
Stats ==
    /\ statsSeen' = <<Len(cache)>>
    /\ lastHit' = <<>> /\ lastEvict' = <<>>
    /\ UNCHANGED <<cache, now, ppc, preq, pexp, pcalls, recency>>
    /\ UNCHANGED notPlannerVars

NextPlanner ==
    \/ Tick
    \/ Stats
    \/ \E t \in PlannerThreads :
        \/ \E req \in Requests : CallEvictExpired(t, req)
        \/ Lookup(t)
        \/ Compute(t)
        \/ Insert(t)
        \/ CallEvictOverCapacity(t)

\* Requests whose tool names, version tokens and payloads differ in one
\* place at a time: no token and the token "default", an older and a newer
\* cache_epoch, and names that hold the key's separator.
KeyRequests ==
    { [tool |-> "search", token |-> <<>>,          q |-> "a"],
      [tool |-> "search", token |-> <<"default">>, q |-> "a"],
      [tool |-> "search", token |-> <<"2">>,       q |-> "a"],
      [tool |-> "search", token |-> <<"3">>,       q |-> "a"],
      [tool |-> "search", token |-> <<"2">>,       q |-> "b"],
      [tool |-> "refs",   token |-> <<"2">>,       q |-> "a"],
      [tool |-> "refs",   token |-> <<"2:x">>,     q |-> "a"],
      [tool |-> "refs:2", token |-> <<"x">>,       q |-> "a"] }

\* The calls of one thread, one after the other, over KeyRequests.
NextPlannerKeys ==
    \/ Tick
    \/ \E req \in KeyRequests : CallEvictExpired("t1", req)
    \/ Lookup("t1")
    \/ Compute("t1")
    \/ Insert("t1")
    \/ CallEvictOverCapacity("t1")


(***************************************************************************)
(* The graph store (store/database.rs over the schema of store/schema.rs)  *)
(*                                                                         *)
(* Every method opens its own connection; no method opens a transaction,   *)
(* so each conn.execute is committed on its own and a failing statement    *)
(* undoes only itself.  PRAGMA foreign_keys = ON is set on every           *)
(* connection: the REFERENCES clauses are enforced at each statement.      *)
(***************************************************************************)
Conns == {"w1", "w2"}

Paths == {"p1", "p2"}

\* SymbolRecord values: qualified_name, file_path, the number of parameters
\* (positions 0..np-1) and parent_symbol_id (0 is None).  "a" is a function
\* with one parameter, "b" a member whose parent is the symbol of id 1.
SymbolA(f) == [qn |-> "a", fp |-> f, np |-> 1, parent |-> 0]
SymbolB(f) == [qn |-> "b", fp |-> f, np |-> 0, parent |-> 1]

\* The symbol lists a caller passes: empty, one symbol, the same symbol
\* twice, and a function followed by a member; the records carry their own
\* file_path, which need not be the path of the call.
SymbolLists ==
    {<<>>} \cup { <<SymbolA(f)>> : f \in Paths }
           \cup { <<SymbolA(f), SymbolA(f)>> : f \in Paths }
           \cup { <<SymbolA(f), SymbolB(g)>> : f \in Paths, g \in Paths }

NoLocals ==
    [op |-> "", path |-> "", path2 |-> "", list |-> <<>>, idx |-> 0,
     old_ids |-> {}, sid |-> 0]

SymIdsOf(syms, p) == { s.id : s \in { x \in syms : x.fp = p } }

C7_FkFileMutant(fs, path) == TRUE

\* symbols.file_path / external_deps.file_path REFERENCES files(path):
\* the child row's key must exist.
FkFileOk(fs, path) == path \in fs

\* symbols.parent_symbol_id REFERENCES symbols(id); NULL passes.
FkParentOk(syms, parent) == parent = 0 \/ \E s \in syms : s.id = parent

\* parameters.symbol_id REFERENCES symbols(id)
FkSymbolOk(syms, sid) == \E s \in syms : s.id = sid

\* Deleting the symbols `del` leaves no parameters row and no remaining
\* symbols row (parent_symbol_id) referring to them.
SymbolsDeletable(syms, pars, del) ==
    LET ids == { s.id : s \in del } IN
    /\ \A r \in pars : r.sid \notin ids
    /\ \A s \in syms \ del : s.parent \notin ids

\* Deleting files row `path` leaves no symbols or external_deps row
\* referring to it.
FileDeletable(syms, ds, path) ==
    /\ \A s \in syms : s.fp # path
    /\ \A d \in ds : d.fp # path

\* UNIQUE(qualified_name, file_path)
SymbolKeyFree(syms, qn, fp) == \A s \in syms : ~(s.qn = qn /\ s.fp = fp)

\* The dedup of replace_file_symbols: `seen` holds the keys of the earlier
\* list elements, so element i is skipped when an earlier one has its key.
IsDupAt(list, i) ==
    \E j \in 1..(i - 1) : list[j].qn = list[i].qn /\ list[j].fp = list[i].fp

RECURSIVE SkipDups(_, _)
SkipDups(list, i) ==
    IF i <= Len(list) /\ IsDupAt(list, i) THEN SkipDups(list, i + 1) ELSE i

\* What a SELECT over the rows of path p shows of its symbols: each with
\* its number of parameters rows and whether it has an FTS row.
RowView(p) ==
    { [qn |-> s.qn,
       np |-> Cardinality({ r \in parameters : r.sid = s.id }),
       fts |-> (\E r \in fts : r.sid = s.id)] :
      s \in { x \in symbols : x.fp = p } }

\* After init_schema on a fresh database file: every table exists (the FTS
\* table included) and is empty.
InitStore ==
    /\ files = {}
    /\ symbols = {}
    /\ parameters = {}
    /\ fts = {}
    /\ edges = {}
    /\ deps = {}
    /\ nextSymId = 1
    /\ nextDepId = 1
    /\ spc = [w \in Conns |-> "idle"]
    /\ sloc = [w \in Conns |-> NoLocals]
    /\ spre = [w \in Conns |-> {}]
    /\ solo = [w \in Conns |-> TRUE]
    /\ scalls = 0
    /\ sret = <<>>

\* A call begins on connection w: it has the store to itself when no other
\* call is in progress, and it overlaps every call that is.
Begin(w, locals, pre) ==
    /\ spc[w] = "idle"
    /\ scalls < MaxStoreCalls
    /\ scalls' = scalls + 1
    /\ sloc' = [sloc EXCEPT ![w] = locals]
    /\ spre' = [spre EXCEPT ![w] = pre]
    /\ solo' = [x \in Conns |->
                  IF x = w THEN \A y \in Conns \ {w} : spc[y] = "idle"
                  ELSE solo[x] /\ spc[x] = "idle"]

\* The call on w goes on to statement `pc` with locals `locals`.
Goto(w, pc, locals) ==
    /\ spc' = [spc EXCEPT ![w] = pc]
    /\ sloc' = [sloc EXCEPT ![w] = locals]
    /\ sret' = <<>>
    /\ UNCHANGED <<spre, solo, scalls>>

\* The call on w returns Ok (ok) or the statement's error.
Return(w, ok) ==
    /\ spc' = [spc EXCEPT ![w] = "idle"]
    /\ sloc' = [sloc EXCEPT ![w] = NoLocals]
    /\ sret' = <<[op |-> sloc[w].op, path |-> sloc[w].path,
                  list |-> sloc[w].list, ok |-> ok, pre |-> spre[w],
                  solo |-> solo[w]]>>
    /\ spre' = [spre EXCEPT ![w] = {}]
    /\ UNCHANGED <<solo, scalls>>

---------------------------------------------------------------------------
\* FileRecord batches, by path.
FileLists == {<<>>} \cup { <<p>> : p \in Paths }

\* upsert_files(records): an empty batch returns at once; otherwise one
\* INSERT .. ON CONFLICT(path) DO UPDATE per record.
UpsertFilesCall(w, recs) ==
    /\ Begin(w, [NoLocals EXCEPT !.op = "upsert_files", !.list = recs,
                                 !.idx = 1], {})
    /\ spc' = [spc EXCEPT ![w] = "uf_upsert"]
    /\ sret' = <<>>
    /\ UNCHANGED <<files, symbols, parameters, fts, edges, deps, nextSymId,
                   nextDepId>>
    /\ UNCHANGED notStoreVars

UpsertFilesRow(w) ==
    /\ spc[w] = "uf_upsert"
    /\ LET l == sloc[w] IN
       IF l.list = <<>>
         THEN /\ Return(w, TRUE)
              /\ UNCHANGED files
         ELSE /\ files' = files \cup {l.list[l.idx]}
              /\ IF l.idx = Len(l.list)
                   THEN Return(w, TRUE)
                   ELSE Goto(w, "uf_upsert", [l EXCEPT !.idx = l.idx + 1])
    /\ UNCHANGED <<symbols, parameters, fts, edges, deps, nextSymId,
                   nextDepId>>
    /\ UNCHANGED notStoreVars

---------------------------------------------------------------------------
\* replace_file_symbols(file_path, symbols): SELECT id FROM symbols WHERE
\* file_path = ?1.
ReplaceSymbolsCall(w, p, syms) ==
    /\ Begin(w, [NoLocals EXCEPT !.op = "replace_file_symbols", !.path = p,
                                 !.list = syms, !.idx = 1,
                                 !.old_ids = SymIdsOf(symbols, p)],
             RowView(p))
    /\ spc' = [spc EXCEPT ![w] = "rs_del_fts"]
    /\ sret' = <<>>
    /\ UNCHANGED <<files, symbols, parameters, fts, edges, deps, nextSymId,
                   nextDepId>>
    /\ UNCHANGED notStoreVars

\* for sid in &old_ids: DELETE FROM symbol_fts WHERE symbol_id = ?1.  The
\* statements of the loop remove the FTS rows of ids that are never issued
\* again, so the loop is taken as one step.
ReplaceSymbolsDelFts(w) ==
    /\ spc[w] = "rs_del_fts"
    /\ fts' = { r \in fts : r.sid \notin sloc[w].old_ids }
    /\ Goto(w, "rs_del_params", sloc[w])
    /\ UNCHANGED <<files, symbols, parameters, edges, deps, nextSymId,
                   nextDepId>>
    /\ UNCHANGED notStoreVars

\* DELETE FROM parameters WHERE symbol_id IN (SELECT id FROM symbols WHERE
\* file_path = ?1)
ReplaceSymbolsDelParams(w) ==
    /\ spc[w] = "rs_del_params"
    /\ parameters' =
         { r \in parameters : r.sid \notin SymIdsOf(symbols, sloc[w].path) }
    /\ Goto(w, "rs_del_symbols", sloc[w])
    /\ UNCHANGED <<files, symbols, fts, edges, deps, nextSymId, nextDepId>>
    /\ UNCHANGED notStoreVars

\* DELETE FROM symbols WHERE file_path = ?1; then the loop over `symbols`
\* starts at the first element.
ReplaceSymbolsDelSymbols(w) ==
    /\ spc[w] = "rs_del_symbols"
    /\ LET l == sloc[w]
           del == { s \in symbols : s.fp = l.path }
           first == SkipDups(l.list, 1)
       IN IF SymbolsDeletable(symbols, parameters, del)
            THEN /\ symbols' = symbols \ del
                 /\ IF first > Len(l.list)
                      THEN Return(w, TRUE)
                      ELSE Goto(w, "rs_ins_symbol", [l EXCEPT !.idx = first])
            ELSE /\ UNCHANGED symbols
                 /\ Return(w, FALSE)
    /\ UNCHANGED <<files, parameters, fts, edges, deps, nextSymId, nextDepId>>
    /\ UNCHANGED notStoreVars

\* INSERT INTO symbols (...) VALUES (...); symbol_id = last_insert_rowid()
ReplaceSymbolsInsSymbol(w) ==
    /\ spc[w] = "rs_ins_symbol"
    /\ LET l == sloc[w]
           sym == l.list[l.idx]
       IN IF /\ FkFileOk(files, sym.fp)
             /\ FkParentOk(symbols, sym.parent)
             /\ SymbolKeyFree(symbols, sym.qn, sym.fp)
            THEN /\ symbols' = symbols \cup
                        {[id |-> nextSymId, qn |-> sym.qn, fp |-> sym.fp,
                          parent |-> sym.parent]}
                 /\ nextSymId' = nextSymId + 1
                 /\ Goto(w, IF sym.np > 0 THEN "rs_ins_param" ELSE "rs_ins_fts",
                         [l EXCEPT !.sid = nextSymId])
            ELSE /\ UNCHANGED <<symbols, nextSymId>>
                 /\ Return(w, FALSE)
    /\ UNCHANGED <<files, parameters, fts, edges, deps, nextDepId>>
    /\ UNCHANGED notStoreVars

\* for param in &sym.parameters: INSERT INTO parameters (...)
ReplaceSymbolsInsParam(w) ==
    /\ spc[w] = "rs_ins_param"
    /\ LET l == sloc[w] IN
       IF /\ FkSymbolOk(symbols, l.sid)
          /\ \A r \in parameters : ~(r.sid = l.sid /\ r.pos = 0)
         THEN /\ parameters' = parameters \cup {[sid |-> l.sid, pos |-> 0]}
              /\ Goto(w, "rs_ins_fts", l)
         ELSE /\ UNCHANGED parameters
              /\ Return(w, FALSE)
    /\ UNCHANGED <<files, symbols, fts, edges, deps, nextSymId, nextDepId>>
    /\ UNCHANGED notStoreVars

\* let _ = INSERT INTO symbol_fts(...); then the next element not yet seen.
ReplaceSymbolsInsFts(w) ==
    /\ spc[w] = "rs_ins_fts"
    /\ LET l == sloc[w]
           next == SkipDups(l.list, l.idx + 1)
       IN /\ fts' = fts \cup {[sid |-> l.sid, qn |-> l.list[l.idx].qn]}
          /\ IF next > Len(l.list)
               THEN Return(w, TRUE)
               ELSE Goto(w, "rs_ins_symbol", [l EXCEPT !.idx = next])
    /\ UNCHANGED <<files, symbols, parameters, edges, deps, nextSymId,
                   nextDepId>>
    /\ UNCHANGED notStoreVars

---------------------------------------------------------------------------
\* EdgeRecord values (source_type, target_type and relationship are the
\* same in all of them) and ExternalDepRecord values.
EdgeLists == {<<>>} \cup { <<[src |-> 1, tgt |-> 2, fp |-> f]>> : f \in Paths }

DepLists == {<<>>} \cup { <<[fp |-> f, mod |-> "m"]>> : f \in Paths }

EdgeView(p) == { e \in edges : e.fp = p }

\* DELETE FROM edges WHERE file_path = ?1
DeleteEdgesOf(es, p) == { e \in es : e.fp # p }

\* INSERT OR IGNORE INTO edges: a row with the same (source_id, target_id,
\* source_type, target_type, relationship) makes the insert a no-op.
InsertOrIgnoreEdge(es, e) ==
    IF \E x \in es : x.src = e.src /\ x.tgt = e.tgt THEN es ELSE es \cup {e}

\* replace_file_edges run from its first statement to its last with no
\* other statement in between.
RECURSIVE InsertEdges(_, _, _)
InsertEdges(es, list, i) ==
    IF i > Len(list) THEN es
    ELSE InsertEdges(InsertOrIgnoreEdge(es, list[i]), list, i + 1)

ReplaceFileEdges(es, p, list) == InsertEdges(DeleteEdgesOf(es, p), list, 1)

DepView(p) == { d.mod : d \in { x \in deps : x.fp = p } }

\* replace_file_edges(file_path, edges): DELETE FROM edges WHERE file_path
\* = ?1, then the loop over `edges`.
ReplaceEdgesCall(w, p, es) ==
    /\ Begin(w, [NoLocals EXCEPT !.op = "replace_file_edges", !.path = p,
                                 !.list = es, !.idx = 1],
             EdgeView(p))
    /\ edges' = DeleteEdgesOf(edges, p)
    /\ spc' = [spc EXCEPT ![w] = "re_insert"]
    /\ sret' = <<>>
    /\ UNCHANGED <<files, symbols, parameters, fts, deps, nextSymId,
                   nextDepId>>
    /\ UNCHANGED notStoreVars

\* for edge_py in &edges: stmt.execute(...)
ReplaceEdgesInsert(w) ==
    /\ spc[w] = "re_insert"
    /\ LET l == sloc[w] IN
       IF l.list = <<>>
         THEN /\ Return(w, TRUE)
              /\ UNCHANGED edges
         ELSE /\ edges' = InsertOrIgnoreEdge(edges, l.list[l.idx])
              /\ IF l.idx = Len(l.list)
                   THEN Return(w, TRUE)
                   ELSE Goto(w, "re_insert", [l EXCEPT !.idx = l.idx + 1])
    /\ UNCHANGED <<files, symbols, parameters, fts, deps, nextSymId,
                   nextDepId>>
    /\ UNCHANGED notStoreVars

\* replace_external_deps(file_path, deps): DELETE FROM external_deps WHERE
\* file_path = ?1, then the loop over `deps`.
ReplaceDepsCall(w, p, ds) ==
    /\ Begin(w, [NoLocals EXCEPT !.op = "replace_external_deps", !.path = p,
                                 !.list = ds, !.idx = 1],
             DepView(p))
    /\ deps' = { d \in deps : d.fp # p }
    /\ spc' = [spc EXCEPT ![w] = "rd_insert"]
    /\ sret' = <<>>
    /\ UNCHANGED <<files, symbols, parameters, fts, edges, nextSymId,
                   nextDepId>>
    /\ UNCHANGED notStoreVars

\* INSERT INTO external_deps (file_path, ...)
ReplaceDepsInsert(w) ==
    /\ spc[w] = "rd_insert"
    /\ LET l == sloc[w] IN
       IF l.list = <<>>
         THEN /\ Return(w, TRUE)
              /\ UNCHANGED <<deps, nextDepId>>
         ELSE LET d == l.list[l.idx] IN
              IF FkFileOk(files, d.fp)
                THEN /\ deps' = deps \cup
                          {[id |-> nextDepId, fp |-> d.fp, mod |-> d.mod]}
                     /\ nextDepId' = nextDepId + 1
                     /\ IF l.idx = Len(l.list)
                          THEN Return(w, TRUE)
                          ELSE Goto(w, "rd_insert",
                                    [l EXCEPT !.idx = l.idx + 1])
                ELSE /\ UNCHANGED <<deps, nextDepId>>
                     /\ Return(w, FALSE)
    /\ UNCHANGED <<files, symbols, parameters, fts, edges, nextSymId>>
    /\ UNCHANGED notStoreVars

---------------------------------------------------------------------------
\* delete_file_graph(file_path): SELECT id FROM symbols WHERE file_path = ?1
DeleteGraphCall(w, p) ==
    /\ Begin(w, [NoLocals EXCEPT !.op = "delete_file_graph", !.path = p,
                                 !.old_ids = SymIdsOf(symbols, p)],
             {})
    /\ spc' = [spc EXCEPT ![w] = "dg_del_fts"]
    /\ sret' = <<>>
    /\ UNCHANGED <<files, symbols, parameters, fts, edges, deps, nextSymId,
                   nextDepId>>
    /\ UNCHANGED notStoreVars

\* for sid in &symbol_ids: DELETE FROM symbol_fts WHERE symbol_id = ?1
DeleteGraphDelFts(w) ==
    /\ spc[w] = "dg_del_fts"
    /\ fts' = { r \in fts : r.sid \notin sloc[w].old_ids }
    /\ Goto(w, "dg_del_edges", sloc[w])
    /\ UNCHANGED <<files, symbols, parameters, edges, deps, nextSymId,
                   nextDepId>>
    /\ UNCHANGED notStoreVars

\* DELETE FROM edges WHERE file_path = ?1
DeleteGraphDelEdges(w) ==
    /\ spc[w] = "dg_del_edges"
    /\ edges' = DeleteEdgesOf(edges, sloc[w].path)
    /\ Goto(w, "dg_del_deps", sloc[w])
    /\ UNCHANGED <<files, symbols, parameters, fts, deps, nextSymId,
                   nextDepId>>
    /\ UNCHANGED notStoreVars

\* DELETE FROM external_deps WHERE file_path = ?1
DeleteGraphDelDeps(w) ==
    /\ spc[w] = "dg_del_deps"
    /\ deps' = { d \in deps : d.fp # sloc[w].path }
    /\ Goto(w, "dg_del_params", sloc[w])
    /\ UNCHANGED <<files, symbols, parameters, fts, edges, nextSymId,
                   nextDepId>>
    /\ UNCHANGED notStoreVars

\* DELETE FROM parameters WHERE symbol_id IN (SELECT id FROM symbols ...)
DeleteGraphDelParams(w) ==
    /\ spc[w] = "dg_del_params"
    /\ parameters' =
         { r \in parameters : r.sid \notin SymIdsOf(symbols, sloc[w].path) }
    /\ Goto(w, "dg_del_symbols", sloc[w])
    /\ UNCHANGED <<files, symbols, fts, edges, deps, nextSymId, nextDepId>>
    /\ UNCHANGED notStoreVars

\* DELETE FROM symbols WHERE file_path = ?1
DeleteGraphDelSymbols(w) ==
    /\ spc[w] = "dg_del_symbols"
    /\ LET del == { s \in symbols : s.fp = sloc[w].path } IN
       IF SymbolsDeletable(symbols, parameters, del)
         THEN /\ symbols' = symbols \ del
              /\ Goto(w, "dg_del_file", sloc[w])
         ELSE /\ UNCHANGED symbols
              /\ Return(w, FALSE)
    /\ UNCHANGED <<files, parameters, fts, edges, deps, nextSymId, nextDepId>>
    /\ UNCHANGED notStoreVars

\* DELETE FROM files WHERE path = ?1
DeleteGraphDelFile(w) ==
    /\ spc[w] = "dg_del_file"
    /\ IF FileDeletable(symbols, deps, sloc[w].path)
         THEN /\ files' = files \ {sloc[w].path}
              /\ Return(w, TRUE)
         ELSE /\ UNCHANGED files
              /\ Return(w, FALSE)
    /\ UNCHANGED <<symbols, parameters, fts, edges, deps, nextSymId,
                   nextDepId>>
    /\ UNCHANGED notStoreVars

---------------------------------------------------------------------------
\* rename_file(old_path, new_path): SELECT ... FROM files WHERE path = ?1;
\* QueryReturnedNoRows returns Ok(()).
RenameCall(w, old, new) ==
    /\ Begin(w, [NoLocals EXCEPT !.op = "rename_file", !.path = old,
                                 !.path2 = new],
             {})
    /\ spc' = [spc EXCEPT ![w] = IF old \in files THEN "rn_upsert"
                                                  ELSE "rn_no_rows"]
    /\ sret' = <<>>
    /\ UNCHANGED <<files, symbols, parameters, fts, edges, deps, nextSymId,
                   nextDepId>>
    /\ UNCHANGED notStoreVars

RenameNoRows(w) ==
    /\ spc[w] = "rn_no_rows"
    /\ Return(w, TRUE)
    /\ UNCHANGED <<files, symbols, parameters, fts, edges, deps, nextSymId,
                   nextDepId>>
    /\ UNCHANGED notStoreVars

\* INSERT INTO files (path, ...) VALUES (new_path, ...) ON CONFLICT(path)
\* DO UPDATE
RenameUpsertNew(w) ==
    /\ spc[w] = "rn_upsert"
    /\ files' = files \cup {sloc[w].path2}
    /\ Goto(w, "rn_upd_symbols", sloc[w])
    /\ UNCHANGED <<symbols, parameters, fts, edges, deps, nextSymId,
                   nextDepId>>
    /\ UNCHANGED notStoreVars

\* UPDATE symbols SET file_path = ?1 WHERE file_path = ?2
RenameUpdSymbols(w) ==
    /\ spc[w] = "rn_upd_symbols"
    /\ LET l == sloc[w]
           moved == { s \in symbols : s.fp = l.path }
           kept == symbols \ moved
       IN IF \/ moved = {}
             \/ /\ FkFileOk(files, l.path2)
                /\ \A s \in moved : SymbolKeyFree(kept, s.qn, l.path2)
            THEN /\ symbols' = kept \cup
                        { [s EXCEPT !.fp = l.path2] : s \in moved }
                 /\ Goto(w, "rn_upd_edges", l)
            ELSE /\ UNCHANGED symbols
                 /\ Return(w, FALSE)
    /\ UNCHANGED <<files, parameters, fts, edges, deps, nextSymId, nextDepId>>
    /\ UNCHANGED notStoreVars

\* UPDATE edges SET file_path = ?1 WHERE file_path = ?2
RenameUpdEdges(w) ==
    /\ spc[w] = "rn_upd_edges"
    /\ edges' = { IF e.fp = sloc[w].path THEN [e EXCEPT !.fp = sloc[w].path2]
                                         ELSE e : e \in edges }
    /\ Goto(w, "rn_upd_deps", sloc[w])
    /\ UNCHANGED <<files, symbols, parameters, fts, deps, nextSymId,
                   nextDepId>>
    /\ UNCHANGED notStoreVars

\* UPDATE external_deps SET file_path = ?1 WHERE file_path = ?2
RenameUpdDeps(w) ==
    /\ spc[w] = "rn_upd_deps"
    /\ LET l == sloc[w]
           moved == { d \in deps : d.fp = l.path }
       IN IF moved = {} \/ FkFileOk(files, l.path2)
            THEN /\ deps' = (deps \ moved) \cup
                        { [d EXCEPT !.fp = l.path2] : d \in moved }
                 /\ Goto(w, "rn_del_old", l)
            ELSE /\ UNCHANGED deps
                 /\ Return(w, FALSE)
    /\ UNCHANGED <<files, symbols, parameters, fts, edges, nextSymId,
                   nextDepId>>
    /\ UNCHANGED notStoreVars

\* DELETE FROM files WHERE path = ?1 (old_path)
RenameDelOld(w) ==
    /\ spc[w] = "rn_del_old"
    /\ IF FileDeletable(symbols, deps, sloc[w].path)
         THEN /\ files' = files \ {sloc[w].path}
              /\ Return(w, TRUE)
         ELSE /\ UNCHANGED files
              /\ Return(w, FALSE)
    /\ UNCHANGED <<symbols, parameters, fts, edges, deps, nextSymId,
                   nextDepId>>
    /\ UNCHANGED notStoreVars

NextStore ==
    \E w \in Conns :
        \/ \E recs \in FileLists : UpsertFilesCall(w, recs)
        \/ UpsertFilesRow(w)
        \/ \E p \in Paths, syms \in SymbolLists : ReplaceSymbolsCall(w, p, syms)
        \/ ReplaceSymbolsDelFts(w)
        \/ ReplaceSymbolsDelParams(w)
        \/ ReplaceSymbolsDelSymbols(w)
        \/ ReplaceSymbolsInsSymbol(w)
        \/ ReplaceSymbolsInsParam(w)
        \/ ReplaceSymbolsInsFts(w)
        \/ \E p \in Paths, es \in EdgeLists : ReplaceEdgesCall(w, p, es)
        \/ ReplaceEdgesInsert(w)
        \/ \E p \in Paths, ds \in DepLists : ReplaceDepsCall(w, p, ds)
        \/ ReplaceDepsInsert(w)
        \/ \E p \in Paths : DeleteGraphCall(w, p)
        \/ DeleteGraphDelFts(w)
        \/ DeleteGraphDelEdges(w)
        \/ DeleteGraphDelDeps(w)
        \/ DeleteGraphDelParams(w)
        \/ DeleteGraphDelSymbols(w)
        \/ DeleteGraphDelFile(w)
        \/ \E old \in Paths, new \in Paths : RenameCall(w, old, new)
        \/ RenameNoRows(w)
        \/ RenameUpsertNew(w)
        \/ RenameUpdSymbols(w)
        \/ RenameUpdEdges(w)
        \/ RenameUpdDeps(w)
        \/ RenameDelOld(w)

\* A store that holds an indexed project: the files p1 and p2 with one
\* function each, and the call of p1's function by p2's, recorded under p2
\* (the state after upsert_files, replace_file_symbols and
\* replace_file_edges for both files).
InitReindex ==
    /\ files = Paths
    /\ symbols = {[id |-> 1, qn |-> "a", fp |-> "p2", parent |-> 0],
                  [id |-> 2, qn |-> "a", fp |-> "p1", parent |-> 0]}
    /\ parameters = {[sid |-> 1, pos |-> 0], [sid |-> 2, pos |-> 0]}
    /\ fts = {[sid |-> 1, qn |-> "a"], [sid |-> 2, qn |-> "a"]}
    /\ edges = {[src |-> 1, tgt |-> 2, fp |-> "p2"]}
    /\ deps = {}
    /\ nextSymId = 3
    /\ nextDepId = 1
    /\ spc = [w \in Conns |-> "idle"]
    /\ sloc = [w \in Conns |-> NoLocals]
    /\ spre = [w \in Conns |-> {}]
    /\ solo = [w \in Conns |-> TRUE]
    /\ scalls = 1
    /\ sret = <<>>

\* The four calls an incremental re-index makes on the store.
NextReindex ==
    \E w \in Conns :
        \/ \E p \in Paths, syms \in SymbolLists : ReplaceSymbolsCall(w, p, syms)
        \/ ReplaceSymbolsDelFts(w)
        \/ ReplaceSymbolsDelParams(w)
        \/ ReplaceSymbolsDelSymbols(w)
        \/ ReplaceSymbolsInsSymbol(w)
        \/ ReplaceSymbolsInsParam(w)
        \/ ReplaceSymbolsInsFts(w)
        \/ \E p \in Paths, es \in EdgeLists : ReplaceEdgesCall(w, p, es)
        \/ ReplaceEdgesInsert(w)
        \/ \E p \in Paths : DeleteGraphCall(w, p)
        \/ DeleteGraphDelFts(w)
        \/ DeleteGraphDelEdges(w)
        \/ DeleteGraphDelDeps(w)
        \/ DeleteGraphDelParams(w)
        \/ DeleteGraphDelSymbols(w)
        \/ DeleteGraphDelFile(w)
        \/ \E old \in Paths, new \in Paths : RenameCall(w, old, new)
        \/ RenameNoRows(w)
        \/ RenameUpsertNew(w)
        \/ RenameUpdSymbols(w)
        \/ RenameUpdEdges(w)
        \/ RenameUpdDeps(w)
        \/ RenameDelOld(w)

(***************************************************************************)
(* The federated executor (query/federated/executor.rs)                    *)
(*                                                                         *)
(* One fan-out: the plan's shard_ids are visited in order; for each,       *)
(* execute_on_shard asks the router for the shard database and runs the    *)
(* single-shard query on it.  The executor is blocked while a shard call   *)
(* is in progress; the clock runs on.                                      *)
(***************************************************************************)
Shards == {"s1", "s2", "s3"}

FedKinds == {"execute_search", "execute_references", "execute_blast_radius"}

\* shard_ids of a plan: lists of distinct shard ids.
ShardPlans ==
    { pl \in UNION { [1..n -> Shards] : n \in 0..MaxPlanShards } :
        \A i, j \in 1..Len(pl) : i # j => pl[i] # pl[j] }

\* What a single-shard query can answer: for search a response whose
\* `symbols` list has zero, one or two items; for the other two kinds one
\* response object.
ShardAnswers(kind, sh) ==
    IF kind = "execute_search"
      THEN { <<>>, <<[shard |-> sh, item |-> 1]>>,
             <<[shard |-> sh, item |-> 1], [shard |-> sh, item |-> 2]>> }
      ELSE { <<[shard |-> sh, item |-> 0]>> }

C11_KeepMutant(results, answer) == answer

\* Ok(result): search pushes every item of result.symbols, references and
\* blast radius push the response itself; the answers are modelled as the
\* list of what is pushed.
PushResults(results, answer) == results \o answer

C31_OkReportMutant(shard_id, status, latency_ms) ==
    [shard_id |-> shard_id, status |-> "ok", latency |-> latency_ms]

\* let report = PyDict::new(py) with shard_id, status and latency_ms set; one
\* report is pushed per iteration of the loop over shard_ids.
ShardReport(shard_id, status, latency_ms) ==
    [shard_id |-> shard_id, status |-> status, latency |-> latency_ms]

InitFederated ==
    /\ fpc = "idle"
    /\ fkind = ""
    /\ fplan = <<>>
    /\ fidx = 0
    /\ fresults = <<>>
    /\ freports = <<>>
    /\ ffailed = 0
    /\ fnow = 0
    /\ fstarted = 0
    /\ freturned = <<>>
    /\ fcalls = 0
    /\ fresp = <<>>

\* let plan = planner.plan_*(...); all_results, shard_reports and
\* shards_failed start empty.
FedBegin(kind, plan) ==
    /\ fpc = "idle"
    /\ fcalls < MaxFedCalls
    /\ fcalls' = fcalls + 1
    /\ fpc' = "loop"
    /\ fkind' = kind
    /\ fplan' = plan
    /\ fidx' = 1
    /\ fresults' = <<>>
    /\ freports' = <<>>
    /\ ffailed' = 0
    /\ freturned' = <<>>
    /\ fresp' = <<>>
    /\ UNCHANGED <<fnow, fstarted>>
    /\ UNCHANGED notFedVars

\* for shard_id in &shard_ids: shard_started = Instant::now(), then the
\* call of execute_on_shard.
FedCallShard ==
    /\ fpc = "loop"
    /\ fidx <= Len(fplan)
    /\ fstarted' = fnow
    /\ fpc' = "wait"
    /\ fresp' = <<>>
    /\ UNCHANGED <<fkind, fplan, fidx, fresults, freports, ffailed, fnow,
                   freturned, fcalls>>
    /\ UNCHANGED notFedVars

\* execute_on_shard returned Ok(result).
FedShardOk ==
    /\ fpc = "wait"
    /\ \E answer \in ShardAnswers(fkind, fplan[fidx]) :
          /\ fresults' = PushResults(fresults, answer)
          /\ freturned' = Append(freturned, [ok |-> TRUE, answer |-> answer])
    /\ freports' = Append(freports,
                          ShardReport(fplan[fidx], "ok", fnow - fstarted))
    /\ fidx' = fidx + 1
    /\ fpc' = "loop"
    /\ fresp' = <<>>
    /\ UNCHANGED <<fkind, fplan, ffailed, fnow, fstarted, fcalls>>
    /\ UNCHANGED notFedVars

\* execute_on_shard returned Err: get_shard_db raised or returned None
\* ("shard database not accessible"), or the single-shard query raised.
FedShardErr(why) ==
    /\ fpc = "wait"
    /\ ffailed' = ffailed + 1
    /\ freports' = Append(freports,
                          ShardReport(fplan[fidx], "error", fnow - fstarted))
    /\ freturned' = Append(freturned, [ok |-> FALSE, answer |-> <<>>])
    /\ fidx' = fidx + 1
    /\ fpc' = "loop"
    /\ fresp' = <<>>
    /\ UNCHANGED <<fkind, fplan, fresults, fnow, fstarted, fcalls>>
    /\ UNCHANGED notFedVars

\* After the loop: the response dict.
FedRespond ==
    /\ fpc = "loop"
    /\ fidx > Len(fplan)
    /\ fresp' = <<[kind |-> fkind,
                   plan |-> fplan,
                   results |-> fresults,
                   shard_reports |-> freports,
                   total_matches |-> Len(fresults),
                   shards_queried |-> Len(fplan),
                   shards_failed |-> ffailed]>>
    /\ fpc' = "idle"
    /\ UNCHANGED <<fkind, fplan, fidx, fresults, freports, ffailed, fnow,
                   fstarted, freturned, fcalls>>
    /\ UNCHANGED notFedVars

\* Time passes, whatever the executor is doing.
FedTick ==
    /\ fnow < MaxFedTime
    /\ fnow' = fnow + 1
    /\ fresp' = <<>>
    /\ UNCHANGED <<fpc, fkind, fplan, fidx, fresults, freports, ffailed,
                   fstarted, freturned, fcalls>>
    /\ UNCHANGED notFedVars

NextFederated ==
    \/ \E kind \in FedKinds, plan \in ShardPlans : FedBegin(kind, plan)
    \/ FedCallShard
    \/ FedShardOk
    \/ \E why \in {"get_shard_db raised", "shard database not accessible",
                   "query raised"} : FedShardErr(why)
    \/ FedRespond
    \/ FedTick

(***************************************************************************)
(* Context expansion: the breadth-first loop of expand() over the edges    *)
(* table.  One step of the model is one iteration of the while loop, with  *)
(* its whole inner loop over the rows of the current node.                 *)
(***************************************************************************)
\* The (source_id, target_id) rows of the edges table, in table order.
EdgeTables ==
    { << <<1, 2>>, <<2, 3>>, <<3, 4>> >>,
      << <<1, 2>>, <<1, 3>>, <<3, 4>>, <<4, 1>> >> }

SeedLists == { <<1>>, <<2>>, <<1, 3>> }

ExpandDepths == 1..MaxExpandDepth

MaxNodesValues == {3, 5}

\* reached.insert(k, d)
ReachedInsert(m, k, d) ==
    [n \in DOMAIN m \cup {k} |-> IF n = k THEN d ELSE m[n]]

RECURSIVE InsertSeeds(_, _, _)
InsertSeeds(s, i, acc) ==
    IF i > Len(s) THEN acc
    ELSE InsertSeeds(s, i + 1,
                     [reached |-> ReachedInsert(acc.reached, s[i], 0),
                      queue |-> Append(acc.queue, <<s[i], 0>>)])

IsRowOf(current, e) == e[1] = current \/ e[2] = current

\* The SELECT of the loop: the rows with the current node at either end.
EdgeRowsOf(tbl, current) == SelectSeq(tbl, LAMBDA e : IsRowOf(current, e))

\* for (source_id, target_id) in rows { ... }
RECURSIVE VisitRows(_, _, _, _, _, _)
VisitRows(rows, i, current, current_depth, max_nodes, acc) ==
    IF i > Len(rows) THEN acc
    ELSE LET neighbor == IF rows[i][1] = current THEN rows[i][2]
                                                  ELSE rows[i][1]
             next_depth == current_depth + 1
             better == \/ neighbor \notin DOMAIN acc.reached
                       \/ next_depth < acc.reached[neighbor]
             r2 == ReachedInsert(acc.reached, neighbor, next_depth)
             q2 == IF Cardinality(DOMAIN r2) < max_nodes
                   THEN Append(acc.queue, <<neighbor, next_depth>>)
                   ELSE acc.queue
         IN  VisitRows(rows, i + 1, current, current_depth, max_nodes,
                       IF better THEN [reached |-> r2, queue |-> q2]
                                 ELSE acc)

InitExpand ==
    /\ xpc = "idle"
    /\ xedges = <<>>
    /\ xdepth = 1
    /\ xmaxNodes = 3
    /\ reached = <<>>
    /\ queue = <<>>
    /\ cancelled = FALSE
    /\ sinceCancel = 0
    /\ xcalls = 0
    /\ xret = <<>>

\* The caller of a query calls expand(conn, seeds, depth, max_nodes).
ExpandBegin(tbl, s, d, m) ==
    /\ xpc = "idle"
    /\ xcalls < MaxExpandCalls
    /\ LET st == InsertSeeds(s, 1, [reached |-> <<>>, queue |-> <<>>])
       IN  /\ reached' = st.reached
           /\ queue' = st.queue
    /\ xedges' = tbl
    /\ xdepth' = d
    /\ xmaxNodes' = m
    /\ xpc' = "loop"
    /\ cancelled' = FALSE
    /\ sinceCancel' = 0
    /\ xcalls' = xcalls + 1
    /\ xret' = <<>>
    /\ UNCHANGED notExpandVars

\* One iteration of `while let Some((current, current_depth)) = pop_front()`.
ExpandIterate ==
    /\ xpc = "loop"
    /\ queue # <<>>
    /\ LET current == Head(queue)[1]
           current_depth == Head(queue)[2]
           popped == Tail(queue)
       IN  IF Cardinality(DOMAIN reached) >= xmaxNodes
           THEN /\ xpc' = "done"
                /\ queue' = popped
                /\ UNCHANGED reached
           ELSE IF current_depth >= xdepth
           THEN /\ queue' = popped
                /\ UNCHANGED <<xpc, reached>>
           ELSE LET st == VisitRows(EdgeRowsOf(xedges, current), 1, current,
                                    current_depth, xmaxNodes,
                                    [reached |-> reached, queue |-> popped])
                IN  /\ reached' = st.reached
                    /\ queue' = st.queue
                    /\ UNCHANGED xpc
    /\ sinceCancel' = IF cancelled THEN sinceCancel + 1 ELSE sinceCancel
    /\ xret' = <<>>
    /\ UNCHANGED <<xedges, xdepth, xmaxNodes, cancelled, xcalls>>
    /\ UNCHANGED notExpandVars

\* Ok(reached): the queue is empty, or the loop has been left by `break`.
ExpandReturn ==
    /\ \/ xpc = "loop" /\ queue = <<>>
       \/ xpc = "done"
    /\ xpc' = "idle"
    /\ xret' = <<reached>>
    /\ UNCHANGED <<xedges, xdepth, xmaxNodes, reached, queue, cancelled,
                   sinceCancel, xcalls>>
    /\ UNCHANGED notExpandVars

\* The caller's deadline passes while the loop runs.  expand() takes no
\* token, deadline or flag: nothing of the loop's state changes.
ExpandCancel ==
    /\ xpc = "loop"
    /\ ~cancelled
    /\ cancelled' = TRUE
    /\ xret' = <<>>
    /\ UNCHANGED <<xpc, xedges, xdepth, xmaxNodes, reached, queue,
                   sinceCancel, xcalls>>
    /\ UNCHANGED notExpandVars

NextExpand ==
    \/ \E tbl \in EdgeTables, s \in SeedLists, d \in ExpandDepths,
          m \in MaxNodesValues : ExpandBegin(tbl, s, d, m)
    \/ ExpandIterate
    \/ ExpandReturn
    \/ ExpandCancel

(***************************************************************************)
(* Schema migrations: migrate_schema on one connection.  The database is   *)
(* the schema_version row of repo_meta, the effects of the migration       *)
(* statements that are in place, and the rows of migration_history.        *)
(***************************************************************************)
SCHEMA_VERSION == 7

\* The statements of migrate_to_v<k>, in order; `_ => {}` for later k.
StepStatements(k) ==
    CASE k = 2 -> <<"DELETE FROM symbol_fts", "INSERT INTO symbol_fts">>
      [] k = 3 -> <<"idx_edges_file_line">>
      [] k = 4 -> <<"migration_history", "sync_queue", "artifact_quarantine",
                    "artifact_pins", "circuit_breakers", "sync_events",
                    "tool_metrics", "idx_sync_queue_repo_status",
                    "idx_sync_events_repo_created",
                    "idx_tool_metrics_tool_created">>
      [] k = 5 -> <<"trusted_signing_keys", "idx_trusted_keys_repo_active">>
      [] k = 6 -> <<"indexing_diagnostics", "idx_index_diag_run_created",
                    "idx_index_diag_stage_category",
                    "idx_index_diag_file_created">>
      [] k = 7 -> <<"idx_external_deps_module",
                    "idx_external_deps_file_module">>
      [] OTHER -> <<>>

\* The statements of the closure of one step, in order.
ClosureStatements(k) ==
    StepStatements(k)
        \o <<"set_schema_version", "record_migration_step", "RELEASE">>

SeqRange(s) == {s[i] : i \in 1..Len(s)}

\* What the steps up to version v leave in place.
RECURSIVE AppliedUpTo(_)
AppliedUpTo(v) ==
    IF v <= 0 THEN {"migration_history"}
    ELSE AppliedUpTo(v - 1) \cup SeqRange(StepStatements(v))

\* get_schema_version: 0 when the key is absent or unparseable.
GetSchemaVersion(row) == IF row = <<>> THEN 0 ELSE ParseOr(row[1], 0)

\* set_schema_version: upsert of the decimal text.
SetSchemaVersion(version) == SetRepoMeta(I64ToString(version))

\* The row record_migration_step inserts; error_message is NULL as <<>>.
HistoryRow(from_v, to_v, status, error_msg) ==
    [from_version |-> from_v, to_version |-> to_v, status |-> status,
     error_message |-> error_msg]

\* Statement i of the closure of step k, run on db.
ExecStatement(db, k, cur, i) ==
    LET s == ClosureStatements(k)[i] IN
    IF i <= Len(StepStatements(k))
    THEN [db EXCEPT !.applied = @ \cup {s}]
    ELSE IF s = "set_schema_version"
    THEN [db EXCEPT !.ver = SetSchemaVersion(k)]
    ELSE IF s = "record_migration_step"
    THEN [db EXCEPT !.history =
                 Append(@, HistoryRow(cur, k, "success", <<>>))]
    ELSE db

\* The first n statements of the closure of step k, run on db.
RECURSIVE ExecClosure(_, _, _, _)
ExecClosure(db, k, cur, n) ==
    IF n = 0 THEN db
    ELSE ExecStatement(ExecClosure(db, k, cur, n - 1), k, cur, n)

C15_NoRollbackMutant(db, savepoint) == db

\* ROLLBACK TO SAVEPOINT bombe_migrate_step
RollbackTo(db, savepoint) == savepoint

C16_GuardMutant(current_version) == current_version <= SCHEMA_VERSION

\* while current_version < SCHEMA_VERSION
LoopGuard(current_version) == current_version < SCHEMA_VERSION

Database == [ver |-> mver, applied |-> mapplied, history |-> mhistory]

\* Stores left by this or another build: no version row, an unparseable
\* one, and every version up to one past SCHEMA_VERSION.
StoredVersionRows ==
    {<<>>, << <<>> >>} \cup {SetSchemaVersion(v) : v \in 0..SCHEMA_VERSION + 1}

InitMigrate ==
    /\ mver \in StoredVersionRows
    /\ mapplied = AppliedUpTo(GetSchemaVersion(mver))
    /\ mhistory = <<>>
    /\ mpc = "idle"
    /\ mcur = 0
    /\ mstart = <<>>
    /\ mcalls = 0
    /\ mret = <<>>

\* migrate_schema(conn): read the stored version.
MigrateBegin ==
    /\ mpc = "idle"
    /\ mcalls < MaxMigrateCalls
    /\ mpc' = "loop"
    /\ mcur' = GetSchemaVersion(mver)
    /\ mstart' = <<[version |-> GetSchemaVersion(mver), db |-> Database]>>
    /\ mcalls' = mcalls + 1
    /\ mret' = <<>>
    /\ UNCHANGED <<mver, mapplied, mhistory>>
    /\ UNCHANGED notMigrateVars

\* One iteration whose closure returns Ok(()).
MigrateStepOk ==
    /\ mpc = "loop"
    /\ LoopGuard(mcur)
    /\ LET k == mcur + 1
           db == ExecClosure(Database, k, mcur, Len(ClosureStatements(k)))
       IN  /\ mver' = db.ver
           /\ mapplied' = db.applied
           /\ mhistory' = db.history
           /\ mcur' = k
    /\ UNCHANGED <<mpc, mstart, mcalls, mret>>
    /\ UNCHANGED notMigrateVars

\* One iteration whose closure fails at one of its statements: the Err arm.
MigrateStepErr ==
    /\ mpc = "loop"
    /\ LoopGuard(mcur)
    /\ \E f \in 1..Len(ClosureStatements(mcur + 1)) :
         LET k == mcur + 1
             e == ClosureStatements(k)[f]
             partial == ExecClosure(Database, k, mcur, f - 1)
             db == RollbackTo(partial, Database)
         IN  /\ mver' = db.ver
             /\ mapplied' = db.applied
             /\ mhistory' = Append(db.history,
                                   HistoryRow(mcur, k, "failed", <<e>>))
             /\ mret' = <<[ok |-> FALSE, error |-> e, to |-> k]>>
    /\ mpc' = "idle"
    /\ UNCHANGED <<mcur, mstart, mcalls>>
    /\ UNCHANGED notMigrateVars

\* The loop is over: Ok(()).
MigrateReturnOk ==
    /\ mpc = "loop"
    /\ ~LoopGuard(mcur)
    /\ mpc' = "idle"
    /\ mret' = <<[ok |-> TRUE, error |-> "", to |-> mcur]>>
    /\ UNCHANGED <<mver, mapplied, mhistory, mcur, mstart, mcalls>>
    /\ UNCHANGED notMigrateVars

NextMigrate ==
    \/ MigrateBegin
    \/ MigrateStepOk
    \/ MigrateStepErr
    \/ MigrateReturnOk

(***************************************************************************)
(* Context assembly: the packing loop of get_context_impl.  A text is a    *)
(* sequence of pieces; a piece is a run of plain code or one occurrence    *)
(* of something a redaction pattern matches, with its length in bytes.     *)
(***************************************************************************)
MIN_CONTEXT_TOKEN_BUDGET == 1
MAX_CONTEXT_TOKEN_BUDGET == 32000

\* clamp_int: value.max(minimum).min(maximum)
clamp_int(value, minimum, maximum) ==
    LET lo == IF value >= minimum THEN value ELSE minimum
    IN  IF lo <= maximum THEN lo ELSE maximum

clamp_budget(value, minimum, maximum) == clamp_int(value, minimum, maximum)

\* Bytes of a piece: "f()", "fn f(x)", sk-<20 alphanumerics>, AKIA<16>,
\* token="hunter2", token="sk-<20>", a PEM private key block, and the
\* texts the replacements put in their place.
PieceLen(p) ==
    CASE p = "tiny" -> 3
      [] p = "code" -> 7
      [] p = "sk" -> 23
      [] p = "[REDACTED_OPENAI_KEY]" -> 21
      [] p = "akia" -> 20
      [] p = "[REDACTED_AWS_ACCESS_KEY]" -> 25
      [] p = "assign" -> 15
      [] p = "assign_sk" -> 31
      [] p = "token=[REDACTED_OPENAI_KEY]" -> 29
      [] p = "token=[REDACTED]" -> 18
      [] p = "pem" -> 60
      [] p = "[REDACTED_PRIVATE_KEY]" -> 22

RECURSIVE TextLen(_)
TextLen(text) ==
    IF text = <<>> THEN 0 ELSE PieceLen(Head(text)) + TextLen(Tail(text))

\* estimate_tokens: 0 for the empty text, else max(1, floor(len / 3.5)).
estimate_tokens(text) ==
    IF text = <<>> THEN 0 ELSE Max(1, (2 * TextLen(text)) \div 7)

\* REDACTION_PATTERNS, in order: what each regex matches.
PatternMatches(n, p) ==
    CASE n = 1 -> p \in {"sk", "assign_sk"}
      [] n = 2 -> p = "akia"
      [] n = 3 -> p \in {"assign", "assign_sk",
                         "token=[REDACTED_OPENAI_KEY]",
                         "token=[REDACTED]"}
      [] n = 4 -> p = "pem"

\* What replace_all leaves in the place of a match of pattern n.
PatternReplace(n, p) ==
    CASE n = 1 -> IF p = "sk" THEN "[REDACTED_OPENAI_KEY]"
                  ELSE "token=[REDACTED_OPENAI_KEY]"
      [] n = 2 -> "[REDACTED_AWS_ACCESS_KEY]"
      [] n = 3 -> "token=[REDACTED]"
      [] n = 4 -> "[REDACTED_PRIVATE_KEY]"

\* One pattern: count the matches, then replace them all.
ApplyPattern(n, acc) ==
    [text |-> [i \in 1..Len(acc.text) |->
                   IF PatternMatches(n, acc.text[i])
                   THEN PatternReplace(n, acc.text[i]) ELSE acc.text[i]],
     hits |-> acc.hits
              + Cardinality({i \in 1..Len(acc.text) :
                                 PatternMatches(n, acc.text[i])})]

\* redact_sensitive_text: the four patterns one after the other.
redact_sensitive_text(text) ==
    ApplyPattern(4, ApplyPattern(3, ApplyPattern(2,
        ApplyPattern(1, [text |-> text, hits |-> 0]))))

\* The symbols a bundle is packed from: is_seed, signature, and the text
\* source_fragment reads from the file (empty when it cannot be read).
SymbolShapes ==
    { [is_seed |-> TRUE, signature |-> <<"code">>,
       body |-> <<"code", "code", "code">>],
      [is_seed |-> TRUE, signature |-> <<"code", "assign">>,
       body |-> <<"code", "code", "code", "code", "code">>],
      [is_seed |-> TRUE, signature |-> <<"code">>,
       body |-> <<"code", "sk", "code">>],
      [is_seed |-> TRUE, signature |-> <<"tiny">>, body |-> <<>>],
      [is_seed |-> FALSE, signature |-> <<"code", "assign_sk">>,
       body |-> <<"code">>],
      [is_seed |-> FALSE, signature |-> <<"code">>, body |-> <<"code">>] }

\* Rows of symbols: distinct ids, and distinct (qualified_name, file_path).
SymbolAt(i, shape) ==
    [id |-> i, qualified_name |-> i, file_path |-> "f",
     is_seed |-> shape.is_seed, signature |-> shape.signature,
     body |-> shape.body]

\* The symbols in topology order; a seed is among them.
ShapeLists ==
    { s \in UNION { [1..n -> SymbolShapes] : n \in 1..MaxCtxSymbols } :
          \E i \in 1..Len(s) : s[i].is_seed }

TopoOrders == { [i \in 1..Len(s) |-> SymbolAt(i, s[i])] : s \in ShapeLists }

RequestedBudgets == {-5, 0, 1, 2, 6, 9, 40000}

\* dynamic_node_cap, scaled to the size of the modelled orders.
ContextCaps == {2, 5}

C18_FitsMutant(tokens_used, symbol_tokens, budget) == TRUE

\* The negation of `tokens_used + symbol_tokens > clamped_budget`.
Fits(tokens_used, symbol_tokens, budget) ==
    tokens_used + symbol_tokens <= budget

Included(st, symbol, mode, source, key, symbol_tokens, subs) ==
    [st EXCEPT !.seen = @ \cup {key},
               !.tokens_used = @ + symbol_tokens,
               !.included = Append(@, [id |-> symbol.id,
                                       included_as |-> mode,
                                       source |-> source,
                                       substitutions |-> subs])]

DuplicateSkip(st) == [st EXCEPT !.duplicate_skips = @ + 1]

\* The body of the packing loop for one symbol, after the node-cap test.
PackSymbol(st0, symbol, sigonly, budget) ==
    LET include_full == symbol.is_seed /\ ~sigonly
        raw == IF include_full THEN symbol.body ELSE symbol.signature
        mode == IF include_full THEN "full_source" ELSE "signature_only"
        red == redact_sensitive_text(raw)
        st == [st0 EXCEPT !.redaction_hits = @ + red.hits]
        bundle_key == <<symbol.qualified_name, symbol.file_path, red.text>>
        fallback_key == <<symbol.qualified_name, symbol.file_path,
                          symbol.signature>>
    IN  IF bundle_key \in st.seen THEN DuplicateSkip(st)
        ELSE IF Fits(st.tokens_used, estimate_tokens(red.text), budget)
        THEN Included(st, symbol, mode, red.text, bundle_key,
                      estimate_tokens(red.text), red.hits)
        ELSE IF mode # "full_source" THEN st
        ELSE IF fallback_key \in st.seen THEN DuplicateSkip(st)
        ELSE IF Fits(st.tokens_used, estimate_tokens(symbol.signature),
                     budget)
        THEN Included(st, symbol, "signature_only", symbol.signature,
                      fallback_key, estimate_tokens(symbol.signature), 0)
        ELSE st

NoBundle ==
    [tokens_used |-> 0, included |-> <<>>, seen |-> {},
     duplicate_skips |-> 0, redaction_hits |-> 0]

InitContext ==
    /\ cpc = "idle"
    /\ corder = <<>>
    /\ creq = 1
    /\ csigonly = FALSE
    /\ cbudget = 1
    /\ ccap = 3
    /\ cidx = 1
    /\ cst = NoBundle
    /\ cresp = <<>>

\* get_context_impl up to the packing loop: normalisation, and the order.
ContextBegin ==
    /\ cpc = "idle"
    /\ cresp = <<>>
    /\ \E order \in TopoOrders, token_budget \in RequestedBudgets,
          sigonly \in BOOLEAN, cap \in ContextCaps :
          /\ corder' = order
          /\ creq' = token_budget
          /\ csigonly' = sigonly
          /\ cbudget' = clamp_budget(token_budget, MIN_CONTEXT_TOKEN_BUDGET,
                                     MAX_CONTEXT_TOKEN_BUDGET)
          /\ ccap' = cap
    /\ cpc' = "loop"
    /\ cidx' = 1
    /\ cst' = NoBundle
    /\ cresp' = <<>>
    /\ UNCHANGED notContextVars

\* get_context_impl when pick_seeds finds nothing: the empty bundle.
ContextNoSeeds(token_budget) ==
    /\ cpc = "idle"
    /\ cresp = <<>>
    /\ creq' = token_budget
    /\ cbudget' = clamp_budget(token_budget, MIN_CONTEXT_TOKEN_BUDGET,
                               MAX_CONTEXT_TOKEN_BUDGET)
    /\ corder' = <<>>
    /\ cst' = NoBundle
    /\ cresp' = <<[files |-> <<>>, tokens_used |-> 0,
                   token_budget |->
                       clamp_budget(token_budget, MIN_CONTEXT_TOKEN_BUDGET,
                                    MAX_CONTEXT_TOKEN_BUDGET),
                   redaction_hits |-> 0]>>
    /\ UNCHANGED <<cpc, csigonly, ccap, cidx>>
    /\ UNCHANGED notContextVars

\* One iteration of `for (symbol_id, topology_reason) in &topo_order`.
ContextPack ==
    /\ cpc = "loop"
    /\ cidx <= Len(corder)
    /\ IF Len(cst.included) >= ccap
       THEN /\ cidx' = Len(corder) + 1
            /\ UNCHANGED cst
       ELSE /\ cidx' = cidx + 1
            /\ cst' = PackSymbol(cst, corder[cidx], csigonly, cbudget)
    /\ UNCHANGED <<cpc, corder, creq, csigonly, cbudget, ccap, cresp>>
    /\ UNCHANGED notContextVars

\* After the loop: the payload.
ContextRespond ==
    /\ cpc = "loop"
    /\ cidx > Len(corder)
    /\ cpc' = "idle"
    /\ cresp' = <<[files |-> cst.included,
                   tokens_used |-> cst.tokens_used,
                   token_budget |-> cbudget,
                   redaction_hits |-> cst.redaction_hits]>>
    /\ UNCHANGED <<corder, creq, csigonly, cbudget, ccap, cidx, cst>>
    /\ UNCHANGED notContextVars

\* The caller has the payload; the locals of the call are dropped.
ContextDone ==
    /\ cpc = "idle"
    /\ cresp # <<>>
    /\ corder' = <<>>
    /\ creq' = 1
    /\ csigonly' = FALSE
    /\ cbudget' = 1
    /\ ccap' = 3
    /\ cidx' = 1
    /\ cst' = NoBundle
    /\ cresp' = <<>>
    /\ UNCHANGED cpc
    /\ UNCHANGED notContextVars

NextContext ==
    \/ ContextBegin
    \/ \E token_budget \in RequestedBudgets : ContextNoSeeds(token_budget)
    \/ ContextPack
    \/ ContextRespond
    \/ ContextDone

(***************************************************************************)
(* Caller traversals: get_blast_radius_impl and change_impact_impl walk    *)
(* the CALLS edges backwards from the target, breadth first.  One step of  *)
(* the model is one iteration of the while loop.                           *)
(***************************************************************************)
MAX_REFERENCE_DEPTH == 6
MAX_IMPACT_DEPTH == 6
MAX_BLAST_DEPTH == 6
MAX_GRAPH_VISITED == 2000
MAX_GRAPH_EDGES == 5000

\* clamp_depth: clamp_int(value, 1, maximum)
clamp_depth(value, maximum) == clamp_int(value, 1, maximum)

\* adaptive_graph_cap: floor.max(total * 0.2), clamped to [floor, base_cap].
adaptive_graph_cap(total_symbols, base_cap, floor) ==
    LET bounded_total == Max(total_symbols, 0)
        estimated == Max(floor, Max(bounded_total, 1) \div 5)
    IN  clamp_int(estimated, floor, base_cap)

\* CALLS rows (source_id, target_id) of the edges table, in table order:
\* a chain of callers of symbol 1, a graph with a cycle and a fan-in, and
\* a graph of recursive functions (self-calls) that also call each other.
SelfCallTable == << <<1, 1>>, <<2, 1>>, <<1, 2>>, <<2, 2>>, <<3, 2>> >>

CallTables ==
    { << <<2, 1>>, <<3, 2>>, <<4, 3>>, <<5, 4>>, <<6, 5>>, <<7, 6>>,
         <<8, 7>> >>,
      << <<2, 1>>, <<3, 1>>, <<1, 3>>, <<4, 2>>, <<4, 3>>, <<5, 4>> >>,
      SelfCallTable }

\* SELECT COUNT(*) FROM symbols
TotalSymbols(tbl) ==
    Cardinality(UNION {{tbl[i][1], tbl[i][2]} : i \in 1..Len(tbl)})

MaxDepthArgs == {-1, 1, 2, 6, 7}

\* Rows (id, name, qualified_name, pagerank_score) of the symbols table;
\* the symbols not listed carry names that are never asked for.
SymbolTables ==
    { << [id |-> 1, name |-> "run", qualified_name |-> "run",
          pagerank_score |-> 1],
         [id |-> 2, name |-> "run", qualified_name |-> "pkg.run",
          pagerank_score |-> 5] >>,
      << [id |-> 1, name |-> "run", qualified_name |-> "app.run",
          pagerank_score |-> 5],
         [id |-> 2, name |-> "run", qualified_name |-> "pkg.run",
          pagerank_score |-> 5],
         [id |-> 3, name |-> "main", qualified_name |-> "pkg.main",
          pagerank_score |-> 2] >> }

SymbolNames == {"run", "pkg.run", "absent"}

\* ... ORDER BY pagerank_score DESC LIMIT 1: the ids the query can return
\* (rows of equal score come in an order SQLite does not fix).
TopByPagerank(rows) ==
    {rows[i].id : i \in {j \in 1..Len(rows) :
                            \A k \in 1..Len(rows) :
                                rows[k].pagerank_score
                                    <= rows[j].pagerank_score}}

\* resolve_symbol of blast.rs and of change_impact.rs:
\* WHERE qualified_name = ?1 OR name = ?1.
resolve_symbol(symtab, symbol_name) ==
    TopByPagerank(SelectSeq(symtab,
        LAMBDA r : r.qualified_name = symbol_name \/ r.name = symbol_name))

\* resolve_symbol_id of references.rs: the exact qualified_name first, the
\* name as the fallback.
resolve_symbol_id(symtab, symbol_name) ==
    LET exact == SelectSeq(symtab,
                           LAMBDA r : r.qualified_name = symbol_name)
    IN  IF exact # <<>> THEN TopByPagerank(exact)
        ELSE TopByPagerank(SelectSeq(symtab,
                                     LAMBDA r : r.name = symbol_name))

\* The rows whose target_id is the current symbol.
CallerRows(tbl, current) == SelectSeq(tbl, LAMBDA e : e[2] = current)

NoWalk == [queue |-> <<>>, visited |-> {}, callers |-> <<>>]

StartWalk(target_id) ==
    [queue |-> << <<target_id, 0>> >>, visited |-> {target_id},
     callers |-> <<>>]

C36_ForgetVisitedMutant(acc, source_id, depth) ==
    [queue |-> Append(acc.queue, <<source_id, depth + 1>>),
     visited |-> acc.visited,
     callers |-> Append(acc.callers,
                        [id |-> source_id, depth |-> depth + 1])]

\* visited.insert(next_id); results.push(WalkEntry { next_id, depth + 1 });
\* queue.push_back((next_id, depth + 1))
Visit(acc, source_id, depth) ==
    [queue |-> Append(acc.queue, <<source_id, depth + 1>>),
     visited |-> acc.visited \cup {source_id},
     callers |-> Append(acc.callers,
                        [id |-> source_id, depth |-> depth + 1])]

\* get_blast_radius_impl: for (source_id, ...) in rows { ... }
RECURSIVE BlastRows(_, _, _, _)
BlastRows(rows, i, depth, acc) ==
    IF i > Len(rows) THEN acc
    ELSE LET source_id == rows[i][1] IN
         BlastRows(rows, i + 1, depth,
                   IF source_id \in acc.visited THEN acc
                   ELSE Visit(acc, source_id, depth))

\* change_impact_impl: the same loop with its two caps; `break` leaves it.
RECURSIVE ImpactRows(_, _, _, _, _, _)
ImpactRows(rows, i, depth, edge_cap, visited_cap, acc) ==
    IF i > Len(rows) THEN acc
    ELSE LET source_id == rows[i][1] IN
         IF Len(acc.callers) >= edge_cap THEN acc
         ELSE IF source_id \in acc.visited
         THEN ImpactRows(rows, i + 1, depth, edge_cap, visited_cap, acc)
         ELSE IF Cardinality(acc.visited) >= visited_cap THEN acc
         ELSE ImpactRows(rows, i + 1, depth, edge_cap, visited_cap,
                         Visit(acc, source_id, depth))

\* walk of references.rs: both caps are read before the visited test.
RECURSIVE WalkRows(_, _, _, _, _, _)
WalkRows(rows, i, depth, max_edges, max_visited, acc) ==
    IF i > Len(rows) THEN acc
    ELSE LET next_id == rows[i][1] IN
         IF \/ Len(acc.callers) >= max_edges
            \/ Cardinality(acc.visited) >= max_visited
         THEN acc
         ELSE IF next_id \in acc.visited
         THEN WalkRows(rows, i + 1, depth, max_edges, max_visited, acc)
         ELSE WalkRows(rows, i + 1, depth, max_edges, max_visited,
                       Visit(acc, next_id, depth))

\* dynamic_edge_cap: 256.max(MAX_GRAPH_EDGES.min(dynamic_visited_cap * 2))
EdgeCap(dynamic_visited_cap) ==
    Max(256, IF MAX_GRAPH_EDGES <= 2 * dynamic_visited_cap
             THEN MAX_GRAPH_EDGES ELSE 2 * dynamic_visited_cap)

InitWalk ==
    /\ tpc = "idle"
    /\ tengine = ""
    /\ tsymbols = <<>>
    /\ ttable = <<>>
    /\ tname = ""
    /\ ttarget = <<>>
    /\ treq = 1
    /\ tdepth = 1
    /\ tvcap = 0
    /\ tecap = 0
    /\ twalk = NoWalk
    /\ tret = <<>>

\* What a call does once the caps are computed: resolve the target and
\* enter the loop, or return the error "Symbol not found".
Resolved(engine, symtab, symbol_name, candidates) ==
    /\ tengine' = engine
    /\ tsymbols' = symtab
    /\ tname' = symbol_name
    /\ IF candidates = {}
       THEN /\ tpc' = "idle"
            /\ ttarget' = <<>>
            /\ twalk' = NoWalk
            /\ tret' = <<[engine |-> engine, error |-> "Symbol not found",
                          target |-> <<>>, callers |-> <<>>,
                          visited |-> {}]>>
       ELSE \E target_id \in candidates :
            /\ tpc' = "loop"
            /\ ttarget' = <<target_id>>
            /\ twalk' = StartWalk(target_id)
            /\ tret' = <<>>

\* get_blast_radius_impl up to the loop: max_depth is used as passed.
BlastBegin ==
    /\ tpc = "idle"
    /\ \E symtab \in SymbolTables, symbol_name \in SymbolNames,
          tbl \in CallTables, max_depth \in MaxDepthArgs :
          /\ ttable' = tbl
          /\ treq' = max_depth
          /\ tdepth' = max_depth
          /\ Resolved("blast_radius", symtab, symbol_name,
                      resolve_symbol(symtab, symbol_name))
    /\ tvcap' = 0
    /\ tecap' = 0
    /\ UNCHANGED notWalkVars

\* change_impact_impl up to the loop: clamped depth and adaptive caps.
ImpactBegin ==
    /\ tpc = "idle"
    /\ \E symtab \in SymbolTables, symbol_name \in SymbolNames,
          tbl \in CallTables, max_depth \in MaxDepthArgs :
          /\ ttable' = tbl
          /\ treq' = max_depth
          /\ tdepth' = clamp_depth(max_depth, MAX_IMPACT_DEPTH)
          /\ tvcap' = adaptive_graph_cap(TotalSymbols(tbl),
                                         MAX_GRAPH_VISITED, 128)
          /\ Resolved("change_impact", symtab, symbol_name,
                      resolve_symbol(symtab, symbol_name))
    /\ tecap' = EdgeCap(tvcap')
    /\ UNCHANGED notWalkVars

\* get_references_impl with direction "callers", up to the loop of walk.
ReferencesBegin ==
    /\ tpc = "idle"
    /\ \E symtab \in SymbolTables, symbol_name \in SymbolNames,
          tbl \in CallTables, depth \in MaxDepthArgs :
          /\ ttable' = tbl
          /\ treq' = depth
          /\ tdepth' = clamp_depth(depth, MAX_REFERENCE_DEPTH)
          /\ tvcap' = adaptive_graph_cap(TotalSymbols(tbl),
                                         MAX_GRAPH_VISITED, 200)
          /\ Resolved("references", symtab, symbol_name,
                      resolve_symbol_id(symtab, symbol_name))
    /\ tecap' = EdgeCap(tvcap')
    /\ UNCHANGED notWalkVars

\* One iteration of the while loop of get_blast_radius_impl.
BlastIterate ==
    /\ tpc = "loop"
    /\ tengine = "blast_radius"
    /\ twalk.queue # <<>>
    /\ LET current == Head(twalk.queue)[1]
           depth == Head(twalk.queue)[2]
           popped == [twalk EXCEPT !.queue = Tail(@)]
       IN  twalk' = IF depth >= tdepth THEN popped
                    ELSE BlastRows(CallerRows(ttable, current), 1, depth,
                                   popped)
    /\ UNCHANGED <<tpc, tengine, tsymbols, ttable, tname, ttarget, treq,
                   tdepth, tvcap, tecap, tret>>
    /\ UNCHANGED notWalkVars

\* One iteration of the while loop of change_impact_impl.
ImpactIterate ==
    /\ tpc = "loop"
    /\ tengine = "change_impact"
    /\ twalk.queue # <<>>
    /\ LET current == Head(twalk.queue)[1]
           depth == Head(twalk.queue)[2]
           popped == [twalk EXCEPT !.queue = Tail(@)]
       IN  IF Len(twalk.callers) >= tecap
           THEN /\ tpc' = "done"
                /\ twalk' = popped
           ELSE /\ tpc' = tpc
                /\ twalk' = IF depth >= tdepth THEN popped
                            ELSE ImpactRows(CallerRows(ttable, current), 1,
                                            depth, tecap, tvcap, popped)
    /\ UNCHANGED <<tengine, tsymbols, ttable, tname, ttarget, treq, tdepth,
                   tvcap, tecap, tret>>
    /\ UNCHANGED notWalkVars

\* One iteration of the while loop of walk.
ReferencesIterate ==
    /\ tpc = "loop"
    /\ tengine = "references"
    /\ twalk.queue # <<>>
    /\ LET current_id == Head(twalk.queue)[1]
           depth == Head(twalk.queue)[2]
           popped == [twalk EXCEPT !.queue = Tail(@)]
       IN  IF \/ Len(twalk.callers) >= tecap
              \/ Cardinality(twalk.visited) >= tvcap
           THEN /\ tpc' = "done"
                /\ twalk' = popped
           ELSE /\ tpc' = tpc
                /\ twalk' = IF depth >= tdepth THEN popped
                            ELSE WalkRows(CallerRows(ttable, current_id), 1,
                                          depth, tecap, tvcap, popped)
    /\ UNCHANGED <<tengine, tsymbols, ttable, tname, ttarget, treq, tdepth,
                   tvcap, tecap, tret>>
    /\ UNCHANGED notWalkVars

\* The loop is over: the report.
WalkReturn ==
    /\ \/ tpc = "loop" /\ twalk.queue = <<>>
       \/ tpc = "done"
    /\ tpc' = "idle"
    /\ tret' = <<[engine |-> tengine, error |-> "", target |-> ttarget,
                  callers |-> twalk.callers, visited |-> twalk.visited]>>
    /\ UNCHANGED <<tengine, tsymbols, ttable, tname, ttarget, treq, tdepth,
                   tvcap, tecap, twalk>>
    /\ UNCHANGED notWalkVars

NextWalk ==
    \/ BlastBegin
    \/ ImpactBegin
    \/ ReferencesBegin
    \/ BlastIterate
    \/ ImpactIterate
    \/ ReferencesIterate
    \/ WalkReturn

(***************************************************************************)
(* The shard catalog and the shard router: the catalog tables shards,      *)
(* exported_symbols and cross_repo_edges, the router's connection pool,    *)
(* and post_index_cross_repo_sync.  Every call is one step: each holds     *)
(* the GIL, and get_shard_db the pool's mutex as well.                     *)
(***************************************************************************)
MAX_SHARDS_PER_QUERY == 16
MAX_CROSS_REPO_EDGES_PER_QUERY == 200

\* Repositories the calls of the model name: two that come and go, two of
\* a larger workspace, and one that is never registered.
ActiveRepos == {1, 2}
BulkRepos == 10..26
GhostRepos == {99}
CallRepos == ActiveRepos \cup {10, 11} \cup GhostRepos

\* The shards whose db_path exists on disk.
DbOnDisk == ActiveRepos \cup (BulkRepos \ {11})

\* Exported symbols of the larger workspace: one symbol "f" per shard.
BulkExports ==
    {[repo_id |-> r, qualified_name |-> "lib.f", name |-> "f",
      pagerank_score |-> r] : r \in BulkRepos}

\* The catalogs a router can be constructed on: a new one, and one that
\* holds the larger workspace, with or without its exported symbols.
Catalogs ==
    { [shards |-> <<>>, exported |-> {}],
      [shards |-> [r \in BulkRepos |-> TRUE], exported |-> {}],
      [shards |-> [r \in BulkRepos |-> TRUE], exported |-> BulkExports] }

\* The shard databases post_index_cross_repo_sync is called with, per
\* repository: symbols rows and the module_name column of external_deps.
ShardDbs(repo_id) ==
    IF repo_id = 1
    THEN { [symbols |-> {[qualified_name |-> "m.f", name |-> "f",
                          pagerank_score |-> 3]},
            deps |-> <<"n">>],
           [symbols |-> {[qualified_name |-> "m.f", name |-> "f",
                          pagerank_score |-> 3]},
            deps |-> <<>>] }
    ELSE { [symbols |-> {[qualified_name |-> "n.g", name |-> "g",
                          pagerank_score |-> 5],
                         [qualified_name |-> "n.fg", name |-> "fg",
                          pagerank_score |-> 4]},
            deps |-> <<"m", "m">>],
           [symbols |-> {}, deps |-> <<"m", "lib">>],
           [symbols |-> {}, deps |-> <<"m.f">>] }

QueryNames == {"f", "h", "m"}

\* name LIKE '%pattern%' over the names of the model.
NameMatches(pattern, name) ==
    \/ pattern = name
    \/ name = "fg" /\ pattern \in {"f", "g"}

\* qualified_name LIKE 'module_name%' over the names of the model.
PrefixMatches(module_name, qualified_name) ==
    \/ module_name = qualified_name
    \/ module_name = "m" /\ qualified_name = "m.f"
    \/ module_name = "n" /\ qualified_name \in {"n.g", "n.fg"}
    \/ module_name = "lib" /\ qualified_name = "lib.f"

\* ORDER BY pagerank_score DESC: the orders the query can return the rows
\* in (rows of equal score come in an order SQLite does not fix).
RECURSIVE OrderedByPagerank(_)
OrderedByPagerank(rows) ==
    IF rows = {} THEN {<<>>}
    ELSE UNION { {<<r>> \o t : t \in OrderedByPagerank(rows \ {r})} :
                 r \in {x \in rows : \A y \in rows :
                            y.pagerank_score <= x.pagerank_score} }

\* ... LIMIT n
Limit(s, n) == IF Len(s) <= n THEN s ELSE SubSeq(s, 1, n)

\* ORDER BY repo_id ASC
RECURSIVE OrderedByRepoId(_)
OrderedByRepoId(ids) ==
    IF ids = {} THEN <<>>
    ELSE LET least == CHOOSE x \in ids : \A y \in ids : x <= y
         IN  <<least>> \o OrderedByRepoId(ids \ {least})

\* if seen.insert(rid) { result.push(rid) } for every rid of a list
RECURSIVE PushUnseen(_, _, _)
PushUnseen(result, list, i) ==
    IF i > Len(list) THEN result
    ELSE PushUnseen(IF list[i] \in SeqRange(result) THEN result
                    ELSE Append(result, list[i]),
                    list, i + 1)

\* ShardCatalog::list_shards(enabled_only): the repo_id column.
list_shards(shards, enabled_only) ==
    OrderedByRepoId({r \in DOMAIN shards : ~enabled_only \/ shards[r]})

C24_AllShardsMutant(shards) ==
    Limit(list_shards(shards, FALSE), MAX_SHARDS_PER_QUERY)

\* ShardRouter::all_shard_ids
all_shard_ids(shards) ==
    Limit(list_shards(shards, TRUE), MAX_SHARDS_PER_QUERY)

\* ShardCatalog::search_exported_symbols(name, "any", limit): the lists of
\* hits the query can return.
search_exported_symbols(exported, name, limit) ==
    {Limit(s, Max(1, limit)) :
        s \in OrderedByPagerank({x \in exported : NameMatches(name, x.name)})}

\* ShardRouter::route_symbol_query, given the hits of the search.
route_symbol_query(shards, hits) ==
    LET matched == PushUnseen(<<>>, [i \in 1..Len(hits) |-> hits[i].repo_id],
                              1)
    IN  IF matched = <<>> THEN all_shard_ids(shards)
        ELSE Limit(matched, MAX_SHARDS_PER_QUERY)

\* get_cross_repo_edges_from / get_cross_repo_edges_to: the rows in id
\* order, reduced to the column the router reads.
get_cross_repo_edges_from(xedges_rows, repo_id, symbol_name) ==
    LET rows == SelectSeq(xedges_rows,
                    LAMBDA e : /\ e.source_repo_id = repo_id
                               /\ e.source_qualified_name = symbol_name)
    IN  [i \in 1..Len(rows) |-> rows[i].target_repo_id]

get_cross_repo_edges_to(xedges_rows, repo_id, symbol_name) ==
    LET rows == SelectSeq(xedges_rows,
                    LAMBDA e : /\ e.target_repo_id = repo_id
                               /\ e.target_qualified_name = symbol_name)
    IN  [i \in 1..Len(rows) |-> rows[i].source_repo_id]

\* The orders a loop over a HashSet can take its elements in.
RECURSIVE IterationOrders(_)
IterationOrders(ids) ==
    IF ids = {} THEN {<<>>}
    ELSE UNION { {<<r>> \o t : t \in IterationOrders(ids \ {r})} :
                 r \in ids }

\* Step 3 of route_reference_query: for rid in &current_ids { ... }
RECURSIVE PushConnected(_, _, _, _, _)
PushConnected(result, xedges_rows, symbol_name, current_ids, i) ==
    IF i > Len(current_ids) THEN result
    ELSE LET rid == current_ids[i]
             outgoing == PushUnseen(result,
                 get_cross_repo_edges_from(xedges_rows, rid, symbol_name), 1)
             incoming == PushUnseen(outgoing,
                 get_cross_repo_edges_to(xedges_rows, rid, symbol_name), 1)
         IN  PushConnected(incoming, xedges_rows, symbol_name, current_ids,
                           i + 1)

\* The ids of current_ids that have a cross-repo edge for the symbol: the
\* place of the others in the iteration changes nothing.
Connected(xedges_rows, symbol_name, ids) ==
    {r \in ids :
        \/ get_cross_repo_edges_from(xedges_rows, r, symbol_name) # <<>>
        \/ get_cross_repo_edges_to(xedges_rows, r, symbol_name) # <<>>}

\* ShardCatalog::resolve_external_import for a Python file: the lists of
\* matches the query can return.
resolve_external_import(exported, module_name) ==
    {Limit(s, 20) :
        s \in OrderedByPagerank(
                 {x \in exported :
                     PrefixMatches(module_name, x.qualified_name)})}

CrossEdge(repo_id, module_name, m) ==
    [source_repo_id |-> repo_id, source_qualified_name |-> module_name,
     target_repo_id |-> m.repo_id,
     target_qualified_name |-> m.qualified_name]

\* for match_obj in matches.iter() { ... } of resolve_cross_repo_imports
RECURSIVE ResolveMatches(_, _, _, _, _)
ResolveMatches(acc, repo_id, module_name, matches, i) ==
    IF i > Len(matches) THEN acc
    ELSE LET m == matches[i]
             edge == CrossEdge(repo_id, module_name, m)
         IN  ResolveMatches(
                 IF m.repo_id = repo_id \/ edge \in SeqRange(acc) THEN acc
                 ELSE Append(acc, edge),
                 repo_id, module_name, matches, i + 1)

\* resolve_cross_repo_imports: the edge lists it can return.
RECURSIVE ResolveDeps(_, _, _, _, _)
ResolveDeps(acc, exported, repo_id, ext_deps, i) ==
    IF i > Len(ext_deps) THEN {acc}
    ELSE UNION { ResolveDeps(ResolveMatches(acc, repo_id, ext_deps[i],
                                            matches, 1),
                             exported, repo_id, ext_deps, i + 1) :
                 matches \in resolve_external_import(exported, ext_deps[i]) }

resolve_cross_repo_imports(exported, repo_id, ext_deps) ==
    ResolveDeps(<<>>, exported, repo_id, ext_deps, 1)

\* ShardCatalog::refresh_exported_symbols
refresh_exported_symbols(exported, repo_id, db) ==
    {x \in exported : x.repo_id # repo_id}
        \cup {[repo_id |-> repo_id, qualified_name |-> s.qualified_name,
               name |-> s.name, pagerank_score |-> s.pagerank_score] :
              s \in db.symbols}

C25_KeepEdgesMutant(xedges_rows, repo_id) == xedges_rows

C33_DeleteFirstMutant(xedges_rows, repo_id) ==
    LET hit == { i \in 1..Len(xedges_rows) :
                    \/ xedges_rows[i].source_repo_id = repo_id
                    \/ xedges_rows[i].target_repo_id = repo_id }
    IN  IF hit = {} THEN xedges_rows
        ELSE LET first == CHOOSE i \in hit : \A j \in hit : i <= j
             IN  SubSeq(xedges_rows, 1, first - 1)
                    \o SubSeq(xedges_rows, first + 1, Len(xedges_rows))

\* ShardCatalog::delete_cross_repo_edges_for_repo
delete_cross_repo_edges_for_repo(xedges_rows, repo_id) ==
    SelectSeq(xedges_rows, LAMBDA e : /\ e.source_repo_id # repo_id
                                      /\ e.target_repo_id # repo_id)

\* ShardCatalog::upsert_cross_repo_edges: INSERT OR REPLACE, row by row.
RECURSIVE upsert_cross_repo_edges(_, _, _)
upsert_cross_repo_edges(xedges_rows, list, i) ==
    IF i > Len(list) THEN xedges_rows
    ELSE upsert_cross_repo_edges(
             Append(SelectSeq(xedges_rows, LAMBDA e : e # list[i]), list[i]),
             list, i + 1)

InitShard ==
    /\ \E c \in Catalogs :
          /\ kshards = c.shards
          /\ kexported = c.exported
    /\ kedges = <<>>
    /\ rpool = {}
    /\ rorder = <<>>
    /\ rret = <<>>

\* ShardCatalog::register_shard
RegisterShard ==
    /\ \E repo_id \in ActiveRepos :
          kshards' = [r \in DOMAIN kshards \cup {repo_id} |->
                         IF r = repo_id THEN TRUE ELSE kshards[r]]
    /\ rret' = <<>>
    /\ UNCHANGED <<kexported, kedges, rpool, rorder>>
    /\ UNCHANGED notShardVars

\* ShardCatalog::unregister_shard
UnregisterShard ==
    /\ \E repo_id \in ActiveRepos :
          /\ kedges' = delete_cross_repo_edges_for_repo(kedges, repo_id)
          /\ kexported' = {x \in kexported : x.repo_id # repo_id}
          /\ kshards' = [r \in DOMAIN kshards \ {repo_id} |-> kshards[r]]
    /\ rret' = <<>>
    /\ UNCHANGED <<rpool, rorder>>
    /\ UNCHANGED notShardVars

\* ShardCatalog::query("UPDATE shards SET enabled = 0 WHERE repo_id = ?"):
\* the only way the crate offers to clear the flag list_shards filters on.
DisableShard ==
    /\ \E repo_id \in ActiveRepos :
          /\ repo_id \in DOMAIN kshards
          /\ kshards[repo_id]
          /\ kshards' = [kshards EXCEPT ![repo_id] = FALSE]
    /\ rret' = <<>>
    /\ UNCHANGED <<kexported, kedges, rpool, rorder>>
    /\ UNCHANGED notShardVars

\* ShardCatalog::register_shard: INSERT OR REPLACE ... enabled = 1
register_shard(shards, repo_id) ==
    [r \in DOMAIN shards \cup {repo_id} |->
        IF r = repo_id THEN TRUE ELSE shards[r]]

\* History: the catalog as it was before the sync of (repo_id, db) that the
\* previous step left unfinished, if the call now made is its re-run.
ResumedFrom(repo_id, db) ==
    IF /\ rret # <<>>
       /\ rret[1].op = "sync_interrupted"
       /\ rret[1].repo_id = repo_id
       /\ rret[1].db = db
    THEN <<rret[1].before>> ELSE <<>>

\* post_index_cross_repo_sync(catalog, repo_path, db)
PostIndexCrossRepoSync ==
    \E repo_id \in ActiveRepos :
    \E db \in ShardDbs(repo_id) :
       LET exported == refresh_exported_symbols(kexported, repo_id, db)
           deleted == delete_cross_repo_edges_for_repo(kedges, repo_id)
       IN  /\ kshards' = [r \in DOMAIN kshards \cup {repo_id} |->
                             IF r = repo_id THEN TRUE ELSE kshards[r]]
           /\ kexported' = exported
           /\ \E edges_list \in
                  resolve_cross_repo_imports(exported, repo_id, db.deps) :
                 /\ kedges' = upsert_cross_repo_edges(deleted, edges_list, 1)
                 /\ rret' = <<[op |-> "post_index_cross_repo_sync",
                               repo_id |-> repo_id, db |-> db,
                               resumed_from |-> ResumedFrom(repo_id, db),
                               stale |-> Len(kedges) - Len(deleted),
                               cross_repo_edges_discovered |->
                                   Len(edges_list)]>>
           /\ UNCHANGED <<rpool, rorder>>
           /\ UNCHANGED notShardVars

\* post_index_cross_repo_sync stopped (process killed) after step 6, the
\* DELETE of the repository's cross-repo edges, and before step 8, the
\* upsert: every catalog statement runs on its own autocommit connection,
\* so steps 3, 4 and 6 are durable.
PostIndexCrossRepoSyncInterrupted ==
    \E repo_id \in ActiveRepos :
    \E db \in ShardDbs(repo_id) :
       /\ kshards' = register_shard(kshards, repo_id)
       /\ kexported' = refresh_exported_symbols(kexported, repo_id, db)
       /\ kedges' = delete_cross_repo_edges_for_repo(kedges, repo_id)
       /\ rret' = <<[op |-> "sync_interrupted", repo_id |-> repo_id,
                     db |-> db,
                     before |-> [shards |-> kshards, exported |-> kexported,
                                 edges |-> kedges]]>>
       /\ UNCHANGED <<rpool, rorder>>
       /\ UNCHANGED notShardVars

\* ShardRouter::get_shard_db
GetShardDb ==
    \E repo_id \in CallRepos :
       /\ IF repo_id \in rpool
          THEN /\ rret' = <<[op |-> "get_shard_db", repo_id |-> repo_id,
                             db |-> <<repo_id>>, evicted |-> <<>>,
                             pool_before |-> rorder]>>
               /\ UNCHANGED <<rpool, rorder>>
          ELSE IF repo_id \notin DOMAIN kshards \/ repo_id \notin DbOnDisk
          THEN /\ rret' = <<[op |-> "get_shard_db", repo_id |-> repo_id,
                             db |-> <<>>, evicted |-> <<>>,
                             pool_before |-> rorder]>>
               /\ UNCHANGED <<rpool, rorder>>
          ELSE \E oldest_key \in
                   IF Cardinality(rpool) >= MaxConnections /\ rpool # {}
                   THEN {<<k>> : k \in rpool} ELSE {<<>>} :
                  /\ rpool' = (rpool \ SeqRange(oldest_key)) \cup {repo_id}
                  /\ rorder' = Append(SelectSeq(rorder,
                                   LAMBDA k : k \notin SeqRange(oldest_key)),
                                      repo_id)
                  /\ rret' = <<[op |-> "get_shard_db", repo_id |-> repo_id,
                                db |-> <<repo_id>>, evicted |-> oldest_key,
                                pool_before |-> rorder]>>
       /\ UNCHANGED <<kshards, kexported, kedges>>
       /\ UNCHANGED notShardVars

\* ShardRouter::route_symbol_query
RouteSymbolQuery ==
    \E symbol_name \in QueryNames :
    \E hits \in search_exported_symbols(kexported, symbol_name, 100) :
       /\ rret' = <<[op |-> "route_symbol_query",
                     symbol_name |-> symbol_name,
                     hits |-> Len(hits),
                     ids |-> route_symbol_query(kshards, hits)]>>
       /\ UNCHANGED <<kshards, kexported, kedges, rpool, rorder>>
       /\ UNCHANGED notShardVars

\* ShardRouter::route_reference_query
RouteReferenceQuery ==
    \E symbol_name \in QueryNames :
    \E source_repo_id \in {<<>>} \cup {<<r>> : r \in {1} \cup GhostRepos} :
    \E hits \in search_exported_symbols(kexported, symbol_name, 100) :
       LET result == PushUnseen(source_repo_id,
                                route_symbol_query(kshards, hits), 1)
       IN  \E current_ids \in IterationOrders(
                   Connected(kedges, symbol_name, SeqRange(result))) :
              /\ rret' = <<[op |-> "route_reference_query",
                            symbol_name |-> symbol_name,
                            source_repo_id |-> source_repo_id,
                            ids |-> Limit(PushConnected(result, kedges,
                                              symbol_name, current_ids, 1),
                                          MAX_SHARDS_PER_QUERY)]>>
              /\ UNCHANGED <<kshards, kexported, kedges, rpool, rorder>>
              /\ UNCHANGED notShardVars

\* ShardRouter::route_reference_query: the id lists it can return.
route_reference_query(shards, exported, xedges_rows, symbol_name, source_repo_id) ==
    UNION {
      LET result == PushUnseen(source_repo_id,
                               route_symbol_query(shards, hits), 1)
      IN  { Limit(PushConnected(result, xedges_rows, symbol_name,
                                current_ids, 1),
                  MAX_SHARDS_PER_QUERY) :
            current_ids \in IterationOrders(
                Connected(xedges_rows, symbol_name, SeqRange(result))) } :
      hits \in search_exported_symbols(exported, symbol_name, 100) }

\* The rows get_cross_repo_edges_to / get_cross_repo_edges_from return, as
\* the planner keeps them: whole rows, in id order.
EdgeRowsTo(xedges_rows, repo_id, symbol_name) ==
    SelectSeq(xedges_rows, LAMBDA e : /\ e.target_repo_id = repo_id
                                      /\ e.target_qualified_name = symbol_name)

EdgeRowsFrom(xedges_rows, repo_id, symbol_name) ==
    SelectSeq(xedges_rows, LAMBDA e : /\ e.source_repo_id = repo_id
                                      /\ e.source_qualified_name = symbol_name)

PlanDirections == {"callers", "callees", "both"}

PlanNames == {"m", "m.f", "f"}

\* for sid in &shard_ids { ... cross_edges.extend(edges) ... }
RECURSIVE PlanCrossEdges(_, _, _, _, _, _)
PlanCrossEdges(cross_edges, xedges_rows, shard_ids, symbol_name, direction, i) ==
    IF i > Len(shard_ids) THEN cross_edges
    ELSE LET sid == shard_ids[i]
             callers == IF direction \in {"callers", "both"}
                        THEN cross_edges
                                \o EdgeRowsTo(xedges_rows, sid, symbol_name)
                        ELSE cross_edges
             callees == IF direction \in {"callees", "both"}
                        THEN callers
                                \o EdgeRowsFrom(xedges_rows, sid, symbol_name)
                        ELSE callers
         IN  PlanCrossEdges(callees, xedges_rows, shard_ids, symbol_name,
                            direction, i + 1)

\* FederatedQueryPlanner::plan_references, given the routed shard ids.
plan_references(xedges_rows, shard_ids, symbol_name, direction) ==
    [shard_ids |-> Limit(shard_ids, MAX_SHARDS_PER_QUERY),
     cross_repo_edges |->
         Limit(PlanCrossEdges(<<>>, xedges_rows, shard_ids, symbol_name,
                              direction, 1),
               MAX_CROSS_REPO_EDGES_PER_QUERY),
     fan_out_strategy |-> "routed",
     merge_strategy |-> "depth_merge"]

\* FederatedQueryPlanner::plan_references(symbol_name, direction, depth)
PlanReferences ==
    \E symbol_name \in PlanNames :
    \E direction \in PlanDirections :
    \E source_repo_id \in {<<>>, <<1>>} :
    \E shard_ids \in route_reference_query(kshards, kexported, kedges,
                                           symbol_name, source_repo_id) :
       /\ rret' = <<[op |-> "plan_references",
                     symbol_name |-> symbol_name,
                     direction |-> direction,
                     plan |-> plan_references(kedges, shard_ids, symbol_name,
                                              direction)]>>
       /\ UNCHANGED <<kshards, kexported, kedges, rpool, rorder>>
       /\ UNCHANGED notShardVars

\* ShardRouter::close_all
CloseAll ==
    /\ rpool' = {}
    /\ rorder' = <<>>
    /\ rret' = <<>>
    /\ UNCHANGED <<kshards, kexported, kedges>>
    /\ UNCHANGED notShardVars

NextShard ==
    \/ RegisterShard
    \/ UnregisterShard
    \/ DisableShard
    \/ PostIndexCrossRepoSync
    \/ GetShardDb
    \/ RouteSymbolQuery
    \/ RouteReferenceQuery
    \/ CloseAll

\* The catalog between indexing runs: repositories are registered, synced
\* after indexing (a sync may be cut short) and unregistered, and the
\* federated planner reads the catalog to plan a reference query.
NextSync ==
    \/ RegisterShard
    \/ UnregisterShard
    \/ PostIndexCrossRepoSync
    \/ PostIndexCrossRepoSyncInterrupted
    \/ PlanReferences

(***************************************************************************)
(* build_call_edges: the call edges of one file, from its call sites.      *)
(* A call site is reduced to its line_number, the id of the symbol that    *)
(* encloses it (0: caller_for_line found none) and the ids of the targets  *)
(* resolve_targets returned for it (0: the id lookup has no entry).        *)
(***************************************************************************)
CallsiteShapes ==
    {[line_number |-> l, caller |-> c, targets |-> t] :
        l \in {1, 2}, c \in {0, 1, 2},
        t \in {<<>>, <<1>>, <<2, 1>>, <<1, 1>>}}

CallsiteLists ==
    {<<>>} \cup {<<a>> : a \in CallsiteShapes}
           \cup {<<a, b>> : a, b \in CallsiteShapes}

C26_UnseenMutant(seen, dedupe_key) == FALSE

\* seen.contains(&dedupe_key)
SeenKey(seen, dedupe_key) == dedupe_key \in seen

\* for target in targets { ... } of one call site
RECURSIVE PushTargets(_, _, _)
PushTargets(acc, callsite, i) ==
    IF i > Len(callsite.targets) THEN acc
    ELSE LET source_id == callsite.caller
             target_id == callsite.targets[i]
             dedupe_key == <<source_id, target_id, callsite.line_number>>
         IN  PushTargets(
                 IF target_id = 0 \/ SeenKey(acc.seen, dedupe_key) THEN acc
                 ELSE [seen |-> acc.seen \cup {dedupe_key},
                       edges |-> Append(acc.edges,
                                     [source_id |-> source_id,
                                      target_id |-> target_id,
                                      line_number |-> callsite.line_number])],
                 callsite, i + 1)

\* for callsite in &callsites { ... }
RECURSIVE PushCallsites(_, _, _)
PushCallsites(acc, callsites, i) ==
    IF i > Len(callsites) THEN acc
    ELSE PushCallsites(IF callsites[i].caller = 0 THEN acc
                       ELSE PushTargets(acc, callsites[i], 1),
                       callsites, i + 1)

\* The comparator of edges.sort_by: line_number, then source_id, then
\* target_id.
EdgeBefore(a, b) ==
    \/ a.line_number < b.line_number
    \/ /\ a.line_number = b.line_number
       /\ \/ a.source_id < b.source_id
          \/ a.source_id = b.source_id /\ a.target_id < b.target_id

\* sort_by is a stable sort: an element goes behind those not after it.
RECURSIVE SortEdges(_)
SortEdges(s) ==
    IF s = <<>> THEN <<>>
    ELSE LET rest == SortEdges(SubSeq(s, 1, Len(s) - 1))
             e == s[Len(s)]
             k == Cardinality({i \in 1..Len(rest) : ~EdgeBefore(e, rest[i])})
         IN  SubSeq(rest, 1, k) \o <<e>> \o SubSeq(rest, k + 1, Len(rest))

build_call_edges(callsites) ==
    SortEdges(PushCallsites([seen |-> {}, edges |-> <<>>], callsites, 1).edges)

InitCallgraph ==
    /\ gcalls \in CallsiteLists
    /\ gedges = <<>>

IdleCallgraph ==
    /\ gcalls = <<>>
    /\ gedges = <<>>

BuildCallEdges ==
    /\ gedges = <<>>
    /\ gedges' = <<build_call_edges(gcalls)>>
    /\ UNCHANGED gcalls
    /\ UNCHANGED notCallgraphVars

NextCallgraph ==
    \/ BuildCallEdges

(***************************************************************************)
(* Data-flow tracing (query/data_flow.rs): trace_data_flow_impl walks the  *)
(* CALLS edges from the target, upstream (callers), downstream (callees)   *)
(* or both, and labels every node it meets with a role.                    *)
(***************************************************************************)
MAX_FLOW_DEPTH == 6

\* CALLS rows (source_id, target_id) of the edges table, in table order: a
\* caller with two callees, a call chain, and a cycle with a second caller.
FlowTables ==
    { << <<2, 1>>, <<2, 3>> >>,
      << <<1, 2>>, <<2, 3>>, <<3, 4>> >>,
      << <<1, 2>>, <<2, 1>>, <<3, 1>> >> }

FlowTargets == {1, 2}

FlowDirections == {"upstream", "downstream", "both"}

FlowDepthArgs == {0, 1, 2, 7}

\* upstream_stmt / downstream_stmt: the rows for the current symbol.
UpstreamRows(tbl, current_id) == SelectSeq(tbl, LAMBDA e : e[2] = current_id)

DownstreamRows(tbl, current_id) == SelectSeq(tbl, LAMBDA e : e[1] = current_id)

\* nodes.entry(neighbor_id).or_insert_with(|| { ... "role": role })
NodesEntry(nodes, neighbor_id, role) ==
    IF neighbor_id \in DOMAIN nodes THEN nodes
    ELSE [n \in DOMAIN nodes \cup {neighbor_id} |->
             IF n = neighbor_id THEN role ELSE nodes[n]]

\* for (neighbor_id, ...) in rows { ... } of one direction
RECURSIVE FlowRows(_, _, _, _, _, _, _, _)
FlowRows(rows, i, current_id, depth, role, edge_cap, visited_cap, acc) ==
    IF i > Len(rows) THEN acc
    ELSE IF \/ Len(acc.paths) >= edge_cap
            \/ Cardinality(DOMAIN acc.nodes) >= visited_cap
    THEN acc
    ELSE LET neighbor_id == IF role = "upstream" THEN rows[i][1]
                                                 ELSE rows[i][2]
             path == IF role = "upstream"
                     THEN [from_id |-> neighbor_id, to_id |-> current_id,
                           depth |-> depth + 1]
                     ELSE [from_id |-> current_id, to_id |-> neighbor_id,
                           depth |-> depth + 1]
             key == <<neighbor_id, role>>
         IN  FlowRows(rows, i + 1, current_id, depth, role, edge_cap,
                      visited_cap,
                      [nodes |-> NodesEntry(acc.nodes, neighbor_id, role),
                       paths |-> Append(acc.paths, path),
                       seen |-> acc.seen \cup {key},
                       queue |-> IF key \in acc.seen THEN acc.queue
                                 ELSE Append(acc.queue,
                                             <<neighbor_id, depth + 1,
                                               role>>)])

\* paths.sort_by(depth, then line): a stable sort; the model's rows carry
\* no line_number (NULL reads as 0), so ties keep their order.
RECURSIVE SortPaths(_, _)
SortPaths(paths, d) ==
    IF paths = <<>> THEN <<>>
    ELSE SelectSeq(paths, LAMBDA p : p.depth = d)
            \o SortPaths(SelectSeq(paths, LAMBDA p : p.depth # d), d + 1)

IdleFlow ==
    [pc |-> "idle", table |-> <<>>, direction |-> "", target_id |-> 0,
     bounded_depth |-> 1, visited_cap |-> 0, edge_cap |-> 0,
     queue |-> <<>>, seen |-> {}, nodes |-> <<>>, paths |-> <<>>,
     ret |-> <<>>]

InitFlow == flow = IdleFlow

\* trace_data_flow_impl up to the loop; the target is the symbol the name
\* resolved to.
FlowBegin ==
    /\ flow.pc = "idle"
    /\ \E tbl \in FlowTables, target_id \in FlowTargets,
          direction \in FlowDirections, max_depth \in FlowDepthArgs :
          LET visited_cap == adaptive_graph_cap(TotalSymbols(tbl),
                                                MAX_GRAPH_VISITED, 128)
          IN  flow' = [pc |-> "loop", table |-> tbl,
                       direction |-> direction, target_id |-> target_id,
                       bounded_depth |-> clamp_depth(max_depth,
                                                     MAX_FLOW_DEPTH),
                       visited_cap |-> visited_cap,
                       edge_cap |-> EdgeCap(visited_cap),
                       queue |-> << <<target_id, 0, "target">> >>,
                       seen |-> {<<target_id, "target">>},
                       nodes |-> NodesEntry(<<>>, target_id, "target"),
                       paths |-> <<>>,
                       ret |-> <<>>]
    /\ UNCHANGED notFlowVars

\* One iteration of `while let Some((current_id, depth, _role)) = pop_front()`.
FlowIterate ==
    /\ flow.pc = "loop"
    /\ flow.queue # <<>>
    /\ LET current_id == Head(flow.queue)[1]
           depth == Head(flow.queue)[2]
           popped == [nodes |-> flow.nodes, paths |-> flow.paths,
                      seen |-> flow.seen, queue |-> Tail(flow.queue)]
           up == IF flow.direction \in {"upstream", "both"}
                 THEN FlowRows(UpstreamRows(flow.table, current_id), 1,
                               current_id, depth, "upstream", flow.edge_cap,
                               flow.visited_cap, popped)
                 ELSE popped
           down == IF flow.direction \in {"downstream", "both"}
                   THEN FlowRows(DownstreamRows(flow.table, current_id), 1,
                                 current_id, depth, "downstream",
                                 flow.edge_cap, flow.visited_cap, up)
                   ELSE up
       IN  IF \/ Len(flow.paths) >= flow.edge_cap
              \/ Cardinality(DOMAIN flow.nodes) >= flow.visited_cap
           THEN flow' = [flow EXCEPT !.pc = "done", !.queue = Tail(@)]
           ELSE IF depth >= flow.bounded_depth
           THEN flow' = [flow EXCEPT !.queue = Tail(@)]
           ELSE flow' = [flow EXCEPT !.nodes = down.nodes,
                                     !.paths = down.paths,
                                     !.seen = down.seen,
                                     !.queue = down.queue]
    /\ UNCHANGED notFlowVars

\* After the loop: the sorted paths and the response.
FlowReturn ==
    /\ \/ flow.pc = "loop" /\ flow.queue = <<>>
       \/ flow.pc = "done"
    /\ flow' = [IdleFlow EXCEPT
                   !.ret = <<[target_id |-> flow.target_id,
                              table |-> flow.table,
                              direction |-> flow.direction,
                              max_depth |-> flow.bounded_depth,
                              nodes |-> flow.nodes,
                              paths |-> SortPaths(flow.paths, 1)]>>]
    /\ UNCHANGED notFlowVars

NextFlow ==
    \/ FlowBegin
    \/ FlowIterate
    \/ FlowReturn

(***************************************************************************)
(* Parameter extraction: build_parameters of the symbol extractor.  A      *)
(* string is a sequence of one-character strings; None is <<>> and         *)
(* Some(t) is <<t>>.                                                       *)
(***************************************************************************)
MaxRawLen == 4

RawChars == {"a", " ", "\t", ",", ":", "."}

Languages == {"typescript", "go", "java"}

RECURSIVE RawStrings(_)
RawStrings(n) ==
    IF n = 0 THEN {<<>>}
    ELSE LET shorter == RawStrings(n - 1)
         IN  shorter \cup {Append(s, c) : s \in shorter, c \in RawChars}

\* char::is_whitespace, on the characters of RawChars
IsWhitespace(c) == c \in {" ", "\t"}

\* str::trim
RECURSIVE TrimStart(_)
TrimStart(s) ==
    IF s # <<>> /\ IsWhitespace(Head(s)) THEN TrimStart(Tail(s)) ELSE s

RECURSIVE TrimEnd(_)
TrimEnd(s) ==
    IF s # <<>> /\ IsWhitespace(s[Len(s)])
    THEN TrimEnd(SubSeq(s, 1, Len(s) - 1))
    ELSE s

Trim(s) == TrimEnd(TrimStart(s))

\* str::find(c): the first index of c (from 1), 0 for None.
RECURSIVE FindChar(_, _, _)
FindChar(s, c, i) ==
    IF i > Len(s) THEN 0
    ELSE IF s[i] = c THEN i
    ELSE FindChar(s, c, i + 1)

\* str::split(c): every piece, the empty ones included.
RECURSIVE SplitChar(_, _)
SplitChar(s, c) ==
    LET at == FindChar(s, c, 1) IN
    IF at = 0 THEN <<s>>
    ELSE <<SubSeq(s, 1, at - 1)>> \o SplitChar(SubSeq(s, at + 1, Len(s)), c)

\* chunk.replace('\t', " ")
ReplaceTab(s) == [i \in 1..Len(s) |-> IF s[i] = "\t" THEN " " ELSE s[i]]

\* .replace("...", ""): non-overlapping matches, left to right.
RECURSIVE RemoveEllipsis(_)
RemoveEllipsis(s) ==
    IF s = <<>> THEN <<>>
    ELSE IF Len(s) >= 3 /\ SubSeq(s, 1, 3) = <<".", ".", ".">>
    THEN RemoveEllipsis(SubSeq(s, 4, Len(s)))
    ELSE <<Head(s)>> \o RemoveEllipsis(Tail(s))

\* .split(' ').filter(|s| !s.is_empty()).collect()
ChunkParts(chunk) ==
    SelectSeq(SplitChar(ReplaceTab(chunk), " "), LAMBDA p : p # <<>>)

\* parts.join(" ")
RECURSIVE JoinParts(_)
JoinParts(parts) ==
    IF parts = <<>> THEN <<>>
    ELSE IF Len(parts) = 1 THEN parts[1]
    ELSE parts[1] \o <<" ">> \o JoinParts(Tail(parts))

\* The (name, param_type) of one non-empty chunk; <<>> where the arm
\* runs `continue`.
NameAndType(chunk, language) ==
    LET parts == ChunkParts(chunk)
        colon_pos == FindChar(chunk, ":", 1)
    IN
    IF language = "typescript"
    THEN IF colon_pos # 0
         THEN LET before == Trim(SubSeq(chunk, 1, colon_pos - 1))
                  after == Trim(SubSeq(chunk, colon_pos + 1, Len(chunk)))
              IN  <<[name |-> before,
                     type_ |-> IF after = <<>> THEN <<>> ELSE <<after>>]>>
         ELSE <<[name |-> chunk, type_ |-> <<>>]>>
    ELSE IF parts = <<>> THEN <<>>
    ELSE IF language = "go"
    THEN <<[name |-> RemoveEllipsis(parts[1]),
            type_ |-> IF Len(parts) > 1
                      THEN <<JoinParts(Tail(parts))>> ELSE <<>>]>>
    ELSE <<[name |-> RemoveEllipsis(parts[Len(parts)]),
            type_ |-> IF Len(parts) > 1
                      THEN <<JoinParts(SubSeq(parts, 1, Len(parts) - 1))>>
                      ELSE <<>>]>>

\* for (index, parameter) in trimmed.split(',').enumerate(), from chunk i
\* (index i - 1) on.
RECURSIVE PushParameters(_, _, _, _)
PushParameters(pushed_so_far, chunks, i, language) ==
    IF i > Len(chunks) THEN pushed_so_far
    ELSE
      LET chunk == Trim(chunks[i])
          nt == IF chunk = <<>> THEN <<>> ELSE NameAndType(chunk, language)
          pushed ==
              IF nt # <<>> /\ nt[1].name # <<>>
              THEN Append(pushed_so_far,
                          [name |-> nt[1].name, type_ |-> nt[1].type_,
                           position |-> i - 1])
              ELSE pushed_so_far
      IN  PushParameters(pushed, chunks, i + 1, language)

build_parameters(params_raw, language) ==
    LET trimmed == Trim(params_raw) IN
    IF trimmed = <<>> THEN <<>>
    ELSE PushParameters(<<>>, SplitChar(trimmed, ","), 1, language)

IdleExtract == [pc |-> "idle"]

InitExtract == extract = IdleExtract

\* A signature is parsed: build_parameters(params_raw, language).
BuildParameters ==
    /\ extract.pc = "idle"
    /\ \E params_raw \in RawStrings(MaxRawLen), language \in Languages :
         extract' = [pc |-> "built", params_raw |-> params_raw,
                     language |-> language,
                     parameters |-> build_parameters(params_raw, language)]
    /\ UNCHANGED notExtractVars

\* The extractor moves the parameters into the symbol it emits.
TakeParameters ==
    /\ extract.pc = "built"
    /\ extract' = IdleExtract
    /\ UNCHANGED notExtractVars

NextExtract ==
    \/ BuildParameters
    \/ TakeParameters

(***************************************************************************)
(* Specifications                                                          *)
(***************************************************************************)
\* A router on a new catalog, before any call.
IdleShard == InitShard /\ kshards = <<>>

\* A fresh store on which migrate_schema has not been called.
IdleMigrate == InitMigrate /\ mver = <<>>

\* A fresh database: no cache_epoch row.
FreshEpoch == InitEpoch /\ epoch = <<>>

InitEpochSpec ==
    InitEpoch /\ InitPlanner /\ InitStore /\ InitFederated /\ InitExpand
    /\ IdleMigrate /\ InitContext /\ InitWalk
    /\ IdleShard /\ IdleCallgraph
    /\ InitFlow
    /\ InitExtract

SpecEpoch == InitEpochSpec /\ [][NextEpochCalls]_vars

InitPlannerSpec ==
    FreshEpoch /\ InitPlanner /\ InitStore /\ InitFederated /\ InitExpand
    /\ IdleMigrate /\ InitContext /\ InitWalk
    /\ IdleShard /\ IdleCallgraph
    /\ InitFlow
    /\ InitExtract

SpecPlanner == InitPlannerSpec /\ [][NextPlanner]_vars

SpecPlannerKeys == InitPlannerSpec /\ [][NextPlannerKeys]_vars

InitStoreSpec ==
    FreshEpoch /\ InitPlanner /\ InitStore /\ InitFederated /\ InitExpand
    /\ IdleMigrate /\ InitContext /\ InitWalk
    /\ IdleShard /\ IdleCallgraph
    /\ InitFlow
    /\ InitExtract

SpecStore == InitStoreSpec /\ [][NextStore]_vars

InitReindexSpec ==
    FreshEpoch /\ InitPlanner /\ InitReindex /\ InitFederated /\ InitExpand
    /\ IdleMigrate /\ InitContext /\ InitWalk
    /\ IdleShard /\ IdleCallgraph
    /\ InitFlow
    /\ InitExtract

SpecReindex == InitReindexSpec /\ [][NextReindex]_vars

InitFederatedSpec ==
    FreshEpoch /\ InitPlanner /\ InitStore /\ InitFederated /\ InitExpand
    /\ IdleMigrate /\ InitContext /\ InitWalk
    /\ IdleShard /\ IdleCallgraph
    /\ InitFlow
    /\ InitExtract

SpecFederated == InitFederatedSpec /\ [][NextFederated]_vars

InitExpandSpec ==
    FreshEpoch /\ InitPlanner /\ InitStore /\ InitFederated /\ InitExpand
    /\ IdleMigrate /\ InitContext /\ InitWalk
    /\ IdleShard /\ IdleCallgraph
    /\ InitFlow
    /\ InitExtract

SpecExpand == InitExpandSpec /\ [][NextExpand]_vars

InitMigrateSpec ==
    FreshEpoch /\ InitPlanner /\ InitStore /\ InitFederated /\ InitExpand
    /\ InitMigrate /\ InitContext /\ InitWalk
    /\ IdleShard /\ IdleCallgraph
    /\ InitFlow
    /\ InitExtract

SpecMigrate == InitMigrateSpec /\ [][NextMigrate]_vars

InitContextSpec ==
    FreshEpoch /\ InitPlanner /\ InitStore /\ InitFederated /\ InitExpand
    /\ IdleMigrate /\ InitContext /\ InitWalk
    /\ IdleShard /\ IdleCallgraph
    /\ InitFlow
    /\ InitExtract

SpecContext == InitContextSpec /\ [][NextContext]_vars

InitWalkSpec ==
    FreshEpoch /\ InitPlanner /\ InitStore /\ InitFederated /\ InitExpand
    /\ IdleMigrate /\ InitContext /\ InitWalk
    /\ IdleShard /\ IdleCallgraph
    /\ InitFlow
    /\ InitExtract

SpecWalk == InitWalkSpec /\ [][NextWalk]_vars

\* The walk is a sequential loop: an iteration that can run does run, and
\* a loop that is over returns.
SpecWalkLive ==
    /\ InitWalkSpec
    /\ [][NextWalk]_vars
    /\ WF_vars(BlastIterate)
    /\ WF_vars(ImpactIterate)
    /\ WF_vars(ReferencesIterate)
    /\ WF_vars(WalkReturn)

InitShardSpec ==
    FreshEpoch /\ InitPlanner /\ InitStore /\ InitFederated /\ InitExpand
    /\ IdleMigrate /\ InitContext /\ InitWalk
    /\ InitShard /\ IdleCallgraph
    /\ InitFlow
    /\ InitExtract

SpecShard == InitShardSpec /\ [][NextShard]_vars

InitSyncSpec ==
    FreshEpoch /\ InitPlanner /\ InitStore /\ InitFederated /\ InitExpand
    /\ IdleMigrate /\ InitContext /\ InitWalk
    /\ IdleShard /\ IdleCallgraph
    /\ InitFlow
    /\ InitExtract

SpecSync == InitSyncSpec /\ [][NextSync]_vars

InitCallgraphSpec ==
    FreshEpoch /\ InitPlanner /\ InitStore /\ InitFederated /\ InitExpand
    /\ IdleMigrate /\ InitContext /\ InitWalk
    /\ IdleShard /\ InitCallgraph
    /\ InitFlow
    /\ InitExtract

SpecCallgraph == InitCallgraphSpec /\ [][NextCallgraph]_vars

InitFlowSpec ==
    FreshEpoch /\ InitPlanner /\ InitStore /\ InitFederated /\ InitExpand
    /\ IdleMigrate /\ InitContext /\ InitWalk
    /\ IdleShard /\ IdleCallgraph
    /\ InitFlow
    /\ InitExtract

SpecFlow == InitFlowSpec /\ [][NextFlow]_vars

InitExtractSpec ==
    FreshEpoch /\ InitPlanner /\ InitStore /\ InitFederated /\ InitExpand
    /\ IdleMigrate /\ InitContext /\ InitWalk
    /\ IdleShard /\ IdleCallgraph
    /\ InitFlow
    /\ InitExtract

SpecExtract == InitExtractSpec /\ [][NextExtract]_vars

(***************************************************************************)
(* C1: N concurrent bump_cache_epoch calls on a store whose epoch is       *)
(* e >= 1 leave the stored epoch at e + N once all have completed, and     *)
(* their N returned values are pairwise distinct (no update is lost).      *)
(***************************************************************************)
EpochQuiescent == \A c \in EpochCallers : epc[c] = "idle"

C1_BumpAtomic ==
    (e0 >= 1 /\ EpochQuiescent) =>
        /\ StoredEpoch = e0 + Len(bumpRets)
        /\ \A i, j \in 1..Len(bumpRets) : i # j => bumpRets[i] # bumpRets[j]

(***************************************************************************)
(* C2: a replace_file_symbols call whose records all carry the path of     *)
(* the call, and which no other store call overlaps, when it returns an    *)
(* error leaves the symbols, parameters and FTS rows of its path exactly   *)
(* as they were when the call began.                                       *)
(***************************************************************************)
AllOfPath(list, p) == \A j \in 1..Len(list) : list[j].fp = p

C2_ReplaceAllOrNothing ==
    \A i \in 1..Len(sret) :
        (/\ sret[i].op = "replace_file_symbols"
         /\ ~sret[i].ok
         /\ sret[i].solo
         /\ AllOfPath(sret[i].list, sret[i].path))
            => RowView(sret[i].path) = sret[i].pre

(***************************************************************************)
(* C3: while a per-file replacement for path p is in progress (and no      *)
(* other store call overlaps it), what a reader selects for p is the       *)
(* complete old row set or the complete new row set.                       *)
(***************************************************************************)
Replacements ==
    {"replace_file_symbols", "replace_file_edges", "replace_external_deps"}

OfPath(list, p) == { i \in 1..Len(list) : list[i].fp = p }

ReaderView(op, p) ==
    CASE op = "replace_file_symbols" -> RowView(p)
      [] op = "replace_file_edges" -> EdgeView(p)
      [] op = "replace_external_deps" -> DepView(p)

NewRowSet(op, p, list) ==
    CASE op = "replace_file_symbols" ->
            { [qn |-> list[i].qn, np |-> list[i].np, fts |-> TRUE] :
              i \in OfPath(list, p) }
      [] op = "replace_file_edges" -> { list[i] : i \in OfPath(list, p) }
      [] op = "replace_external_deps" ->
            { list[i].mod : i \in OfPath(list, p) }

C3_ReaderSeesOldOrNew ==
    \A w \in Conns :
        (spc[w] # "idle" /\ sloc[w].op \in Replacements /\ solo[w]) =>
            \/ ReaderView(sloc[w].op, sloc[w].path) = spre[w]
            \/ ReaderView(sloc[w].op, sloc[w].path) =
                   NewRowSet(sloc[w].op, sloc[w].path, sloc[w].list)

(***************************************************************************)
(* C4: the stored cache_epoch and the values returned by get_cache_epoch   *)
(* and bump_cache_epoch never decrease, over any interleaving of calls.    *)
(***************************************************************************)
C4_EpochMonotone ==
    [][StoredEpoch' >= StoredEpoch /\ lastRet' >= lastRet]_vars

(***************************************************************************)
(* C5: when replace_file_symbols(path, S) returns Ok (no other store call  *)
(* having overlapped it), the (qualified_name, file_path) keys of the      *)
(* symbol rows with file_path = path are the keys of the elements of S.    *)
(***************************************************************************)
C5_ReplacePostState ==
    \A i \in 1..Len(sret) :
        (sret[i].op = "replace_file_symbols" /\ sret[i].ok /\ sret[i].solo)
            => { [qn |-> s.qn, fp |-> s.fp] :
                 s \in { x \in symbols : x.fp = sret[i].path } }
               = { [qn |-> sret[i].list[j].qn, fp |-> sret[i].list[j].fp] :
                   j \in 1..Len(sret[i].list) }

(***************************************************************************)
(* C6: a step of a per-file replacement for path p that no other store     *)
(* call overlaps leaves every row belonging to another path q unchanged;   *)
(* and from any store state, two replace_file_edges calls for different    *)
(* paths, each with records of its own path, run one after the other end   *)
(* in the same edges table in either order.                                *)
(***************************************************************************)
RowsOf(q) ==
    LET ids == SymIdsOf(symbols, q) IN
    <<{ s \in symbols : s.fp = q }, { r \in parameters : r.sid \in ids },
      { r \in fts : r.sid \in ids }, { e \in edges : e.fp = q },
      { d \in deps : d.fp = q }>>

ReplacementFrame ==
    \A w \in Conns, q \in Paths :
        LET l == IF spc[w] # "idle" THEN sloc[w] ELSE sloc'[w] IN
        (/\ spc[w] # "idle" \/ spc'[w] # "idle"
         /\ l.op \in Replacements
         /\ l.path # q
         /\ solo'[w])
            => RowsOf(q)' = RowsOf(q)

EitherOrder ==
    \A p \in Paths, q \in Paths, e1 \in EdgeLists, e2 \in EdgeLists :
        (p # q /\ AllOfPath(e1, p) /\ AllOfPath(e2, q)) =>
            ReplaceFileEdges(ReplaceFileEdges(edges, p, e1), q, e2)
          = ReplaceFileEdges(ReplaceFileEdges(edges, q, e2), p, e1)

C6_ReplacementsIndependent == [][ReplacementFrame /\ EitherOrder]_vars

(***************************************************************************)
(* C7: in every state reached by upsert_files, replace_file_symbols,       *)
(* rename_file and delete_file_graph calls, complete or failed, sequential *)
(* or interleaved, every symbol row's file_path is the path of a files row.*)
(***************************************************************************)
C7_SymbolsReferenceFiles == \A s \in symbols : s.fp \in files

\* A delete_file_graph or rename_file has just been refused while symbol
\* rows exist.
C7_Witness ==
    /\ sret # <<>>
    /\ sret[1].op \in {"delete_file_graph", "rename_file"}
    /\ ~sret[1].ok
    /\ symbols # {}

C10_HitOnlyBeforeExpiry ==
    \A i \in 1..Len(lastHit) :
        /\ lastHit[i].expires_at > lastHit[i].at
        /\ lastHit[i].at < lastHit[i].inserted_at + TtlTicks

\* A hit in the last tick of an entry's life, after the clock has moved.
C10_Witness ==
    /\ lastHit # <<>>
    /\ lastHit[1].at + 1 = lastHit[1].expires_at
    /\ lastHit[1].at > lastHit[1].inserted_at

(***************************************************************************)
(* C11: whichever shard calls of a fan-out fail, the response is returned  *)
(* after every shard of the plan has been tried, and its results are the   *)
(* concatenation, in plan order, of what the successful shards returned.   *)
(***************************************************************************)
RECURSIVE SurvivingResults(_, _)
SurvivingResults(returned, i) ==
    IF i > Len(returned) THEN <<>>
    ELSE (IF returned[i].ok THEN returned[i].answer ELSE <<>>)
         \o SurvivingResults(returned, i + 1)

C11_FailuresIsolated ==
    \A r \in 1..Len(fresp) :
        /\ Len(freturned) = Len(fresp[r].plan)
        /\ fresp[r].results = SurvivingResults(freturned, 1)

\* A response in which a shard failed and a later shard's items survive.
C11_Witness ==
    /\ fresp # <<>>
    /\ Len(freturned) = 2
    /\ ~freturned[1].ok
    /\ freturned[2].ok
    /\ Len(freturned[2].answer) = 2
    /\ fresp[1].results = freturned[2].answer

(***************************************************************************)
(* C12: in every response, shards_queried + shards_failed is the number    *)
(* of shard_ids of the plan.                                               *)
(***************************************************************************)
C12_QueriedPlusFailed ==
    \A r \in 1..Len(fresp) :
        fresp[r].shards_queried + fresp[r].shards_failed = Len(fresp[r].plan)

(***************************************************************************)
(* C13: the executor never waits for one shard longer than the per-shard   *)
(* timeout: once the timeout has elapsed since shard_started, the shard    *)
(* has been counted as failed and the loop has gone on.                    *)
(***************************************************************************)
C13_ShardTimeout ==
    fpc = "wait" => fnow - fstarted <= ShardTimeoutTicks

(***************************************************************************)
(* C14: once the caller has signalled cancellation, the expansion loop     *)
(* begins at most CancelGrace further iterations.                          *)
(***************************************************************************)
C14_StopsAfterCancel ==
    cancelled => sinceCancel <= CancelGrace

(***************************************************************************)
(* C15: when migrate_schema returns the error of step k, the effects and   *)
(* 'success' rows of the steps this call completed before k are in place   *)
(* and nothing of step k is, the stored schema_version reads k-1, the      *)
(* last migration_history row is (k-1, k, 'failed', error), and that       *)
(* error is the one returned.                                              *)
(***************************************************************************)
RECURSIVE SuccessRows(_, _)
SuccessRows(from_v, to_v) ==
    IF from_v >= to_v THEN <<>>
    ELSE <<HistoryRow(from_v, from_v + 1, "success", <<>>)>>
         \o SuccessRows(from_v + 1, to_v)

EffectsOfSteps(from_v, to_v) ==
    UNION {SeqRange(StepStatements(j)) : j \in (from_v + 1)..to_v}

C16_ReplayIsNoOp ==
    [][GetSchemaVersion(mver) = SCHEMA_VERSION
          => /\ <<mver, mapplied, mhistory>>' = <<mver, mapplied, mhistory>>
             /\ mret' # <<>> => mret'[1].ok]_vars

\* The second call has returned on a store the first call migrated.
C16_Witness ==
    /\ mcalls = 2
    /\ mret # <<>>
    /\ mret[1].ok
    /\ mstart[1].version = SCHEMA_VERSION
    /\ mhistory = SuccessRows(0, SCHEMA_VERSION)

(***************************************************************************)
(* C17: migrate_schema never returns Ok on a store whose stored            *)
(* schema_version is greater than SCHEMA_VERSION.                          *)
(***************************************************************************)
C17_RefusesNewerStore ==
    (mret # <<>> /\ mret[1].ok) => mstart[1].version <= SCHEMA_VERSION

(***************************************************************************)
(* C18: in every payload, tokens_used is the sum of the token estimates    *)
(* of the emitted fragments and is at most token_budget, the requested     *)
(* budget clamped to [MIN_CONTEXT_TOKEN_BUDGET, MAX_CONTEXT_TOKEN_BUDGET], *)
(* whatever budget was requested.                                          *)
(***************************************************************************)
RECURSIVE TokensOf(_)
TokensOf(fragments) ==
    IF fragments = <<>> THEN 0
    ELSE estimate_tokens(Head(fragments).source) + TokensOf(Tail(fragments))

C18_WithinBudget ==
    \A r \in 1..Len(cresp) :
        /\ cresp[r].token_budget =
               clamp_budget(creq, MIN_CONTEXT_TOKEN_BUDGET,
                            MAX_CONTEXT_TOKEN_BUDGET)
        /\ cresp[r].tokens_used = TokensOf(cresp[r].files)
        /\ cresp[r].tokens_used <= cresp[r].token_budget

\* A budget of 0 was requested; a one-token signature fills the bundle and
\* a later symbol was left out.
C18_Witness ==
    /\ cresp # <<>>
    /\ creq = 0
    /\ cresp[1].tokens_used = 1
    /\ Len(cresp[1].files) = 1
    /\ Len(corder) = 2

(***************************************************************************)
(* C19: every fragment emitted in a bundle has passed through redaction:   *)
(* redaction finds nothing left to replace in it.                          *)
(***************************************************************************)
C19_EmittedRedacted ==
    \A r \in 1..Len(cresp) :
        \A i \in 1..Len(cresp[r].files) :
            redact_sensitive_text(cresp[r].files[i].source).text
                = cresp[r].files[i].source

(***************************************************************************)
(* C20: redaction_hits of a payload is the number of substitutions made    *)
(* in the fragments the payload includes.                                  *)
(***************************************************************************)
RECURSIVE SubstitutionsIn(_)
SubstitutionsIn(fragments) ==
    IF fragments = <<>> THEN 0
    ELSE Head(fragments).substitutions + SubstitutionsIn(Tail(fragments))

C20_HitsOfIncluded ==
    \A r \in 1..Len(cresp) :
        cresp[r].redaction_hits = SubstitutionsIn(cresp[r].files)

(***************************************************************************)
(* C21: every query engine, blast radius included, normalizes its inputs   *)
(* and applies the adaptive caps: no report holds a node at a depth above  *)
(* 6, and no traversal visits more nodes than its adaptive visited cap.    *)
(***************************************************************************)
C21_DepthAndVisitedBounded ==
    tret # <<>> =>
        /\ \A i \in 1..Len(tret[1].callers) :
               tret[1].callers[i].depth <= MAX_BLAST_DEPTH
        /\ Cardinality(tret[1].visited)
               <= adaptive_graph_cap(TotalSymbols(ttable),
                                     MAX_GRAPH_VISITED, 128)

(***************************************************************************)
(* C22: the target of a traversal is resolved by exact qualified_name      *)
(* first: whenever some symbol's qualified_name equals the name asked,     *)
(* the resolved target is such a symbol, whatever the PageRank of the      *)
(* symbols that match by bare name only.                                   *)
(***************************************************************************)
C22_ExactQualifiedNameFirst ==
    (/\ ttarget # <<>>
     /\ \E i \in 1..Len(tsymbols) : tsymbols[i].qualified_name = tname)
    => \E i \in 1..Len(tsymbols) :
           /\ tsymbols[i].id = ttarget[1]
           /\ tsymbols[i].qualified_name = tname

(***************************************************************************)
(* C23: when get_shard_db opens a new shard database while the pool holds  *)
(* max_connections entries, the entry it evicts is the oldest one in the   *)
(* pool.                                                                   *)
(***************************************************************************)
C23_EvictsOldest ==
    (/\ rret # <<>>
     /\ rret[1].op = "get_shard_db"
     /\ rret[1].evicted # <<>>)
    => rret[1].evicted[1] = Head(rret[1].pool_before)

(***************************************************************************)
(* C24: route_symbol_query returns at most MAX_SHARDS_PER_QUERY repo ids,  *)
(* and when no exported symbol matches the name it returns all enabled     *)
(* shards.                                                                 *)
(***************************************************************************)
EnabledShards == {r \in DOMAIN kshards : kshards[r]}

NoExportedMatch(symbol_name) ==
    \A x \in kexported : ~NameMatches(symbol_name, x.name)

C24_AtMostCapAndAllEnabled ==
    (rret # <<>> /\ rret[1].op = "route_symbol_query")
    => /\ Len(rret[1].ids) <= MAX_SHARDS_PER_QUERY
       /\ NoExportedMatch(rret[1].symbol_name)
            => SeqRange(rret[1].ids) = EnabledShards

(***************************************************************************)
(* C24, amended: route_symbol_query returns at most MAX_SHARDS_PER_QUERY   *)
(* repo ids, and when no exported symbol matches the name it returns the   *)
(* enabled shards in repo_id order, cut after the first                    *)
(* MAX_SHARDS_PER_QUERY: all of them only when there are that few.         *)
(***************************************************************************)
C24_CappedFallback ==
    (rret # <<>> /\ rret[1].op = "route_symbol_query")
    => /\ Len(rret[1].ids) <= MAX_SHARDS_PER_QUERY
       /\ NoExportedMatch(rret[1].symbol_name)
            => /\ SeqRange(rret[1].ids) \subseteq EnabledShards
               /\ \A r \in EnabledShards \ SeqRange(rret[1].ids) :
                      /\ Len(rret[1].ids) = MAX_SHARDS_PER_QUERY
                      /\ \A i \in 1..Len(rret[1].ids) : rret[1].ids[i] < r
               /\ \A i, j \in 1..Len(rret[1].ids) :
                      i < j => rret[1].ids[i] < rret[1].ids[j]

\* C24: the fallback was cut at the cap while a disabled shard is
\* registered.
C24_Witness ==
    /\ rret # <<>>
    /\ rret[1].op = "route_symbol_query"
    /\ NoExportedMatch(rret[1].symbol_name)
    /\ Len(rret[1].ids) = MAX_SHARDS_PER_QUERY
    /\ Cardinality(EnabledShards) > MAX_SHARDS_PER_QUERY
    /\ \E r \in DOMAIN kshards : ~kshards[r]

(***************************************************************************)
(* C25: after post_index_cross_repo_sync for repo R, the catalog's         *)
(* cross-repo edges with source_repo_id = R are exactly the deduplicated   *)
(* edges resolved from R's current external dependencies; no edge of an    *)
(* earlier sync of R remains.                                              *)
(***************************************************************************)
EdgesFrom(repo_id) ==
    SelectSeq(kedges, LAMBDA e : e.source_repo_id = repo_id)

ResolvedNow(repo_id, ext_deps) ==
    UNION { {CrossEdge(repo_id, ext_deps[i], x) :
                x \in {y \in kexported :
                          /\ y.repo_id # repo_id
                          /\ PrefixMatches(ext_deps[i], y.qualified_name)}} :
            i \in 1..Len(ext_deps) }

C29_NoneWhenUnregistered ==
    (/\ rret # <<>>
     /\ rret[1].op = "get_shard_db"
     /\ rret[1].repo_id \notin DOMAIN kshards)
    => rret[1].db = <<>>

(***************************************************************************)
(* C30: no federated query is routed to or executed on a shard that is     *)
(* disabled or unregistered: the routing calls return only ids of shards   *)
(* that are registered with the enabled flag set, and get_shard_db never   *)
(* hands out a database for a disabled shard.                              *)
(***************************************************************************)
C30_OnlyEnabledShards ==
    rret # <<>> =>
        /\ rret[1].op \in {"route_symbol_query", "route_reference_query"}
             => SeqRange(rret[1].ids) \subseteq EnabledShards
        /\ (rret[1].op = "get_shard_db" /\ rret[1].db # <<>>)
             => ~(/\ rret[1].repo_id \in DOMAIN kshards
                  /\ ~kshards[rret[1].repo_id])

(***************************************************************************)
(* C26: the edges build_call_edges returns are sorted by (line_number,     *)
(* source_id, target_id) and hold no two edges with the same (source_id,   *)
(* target_id, line_number).                                                *)
(***************************************************************************)
C26_SortedNoDuplicates ==
    gedges # <<>> =>
        LET edges_out == gedges[1] IN
        \A i, j \in 1..Len(edges_out) :
            i < j => EdgeBefore(edges_out[i], edges_out[j])

\* C26: a file whose call sites come out of line order and repeat an edge,
\* and the two edges that remain.
C26_Witness ==
    /\ gedges # <<>>
    /\ Len(gedges[1]) = 2
    /\ Len(gcalls) = 2
    /\ gcalls[1].line_number > gcalls[2].line_number
    /\ gcalls[1].targets = <<1, 1>>
    /\ gcalls[1].caller # 0

(***************************************************************************)
(* C27: concurrent get_or_compute calls with the same cache key, made      *)
(* while no unexpired entry for the key exists, do not each run compute:   *)
(* no two calls hold a computed result for the same key that neither has   *)
(* inserted yet.                                                           *)
(***************************************************************************)
C27_ComputeOncePerFill ==
    \A t, u \in PlannerThreads :
        (/\ t # u
         /\ ppc[t] = "insert"
         /\ ppc[u] = "insert")
        => CacheKey(preq[t]) # CacheKey(preq[u])

TokenOf(req) == IF req.token = <<>> THEN "default" ELSE req.token[1]

\* The names of KeyRequests that hold a ":".
NoSeparator(req) == req.tool # "refs:2" /\ TokenOf(req) # "2:x"

ErrorReports(reports) ==
    Cardinality({ i \in 1..Len(reports) : reports[i].status = "error" })

C31_OneReportPerShard ==
    fresp # <<>> =>
        LET r == fresp[1] IN
        /\ Len(r.shard_reports) = Len(r.plan)
        /\ \A i \in 1..Len(r.plan) :
              /\ r.shard_reports[i].shard_id = r.plan[i]
              /\ r.shard_reports[i].status \in {"ok", "error"}
              /\ r.shard_reports[i].status = "error" <=> ~freturned[i].ok
        /\ r.shards_queried = Len(freturned)
        /\ r.shards_queried = Len(r.plan)
        /\ r.shards_failed = ErrorReports(r.shard_reports)

\* A response to a two-shard plan whose first shard failed and whose second
\* answered.
C31_Witness ==
    /\ fresp # <<>>
    /\ Len(fresp[1].plan) = 2
    /\ fresp[1].shard_reports[1].status = "error"
    /\ fresp[1].shard_reports[2].status = "ok"
    /\ fresp[1].shards_failed = 1

(***************************************************************************)
(* C32: syncing one repo never removes cross-repo edges produced by        *)
(* another repo's sync: a sync of repository R leaves in place every edge  *)
(* whose source is another repository and whose target symbol is still     *)
(* exported after the sync.                                                *)
(***************************************************************************)
StillExported(e, exported) ==
    \E x \in exported : /\ x.repo_id = e.target_repo_id
                        /\ x.qualified_name = e.target_qualified_name

C32_OtherSyncsEdgesKept ==
    [][(/\ rret' # <<>>
        /\ rret'[1].op = "post_index_cross_repo_sync")
       => \A i \in 1..Len(kedges) :
             (/\ kedges[i].source_repo_id # rret'[1].repo_id
              /\ StillExported(kedges[i], kexported'))
             => kedges[i] \in SeqRange(kedges')]_vars

(***************************************************************************)
(* C33: when post_index_cross_repo_sync for repo R was interrupted between *)
(* deleting R's cross-repo edges and upserting the new ones, re-running    *)
(* the sync to completion brings the catalog to a state the uninterrupted  *)
(* sync would have produced.                                               *)
(***************************************************************************)
Uninterrupted(before, repo_id, db) ==
    LET exported == refresh_exported_symbols(before.exported, repo_id, db)
        deleted == delete_cross_repo_edges_for_repo(before.edges, repo_id)
    IN  { [shards |-> register_shard(before.shards, repo_id),
           exported |-> exported,
           edges |-> upsert_cross_repo_edges(deleted, edges_list, 1)] :
          edges_list \in
              resolve_cross_repo_imports(exported, repo_id, db.deps) }

C39_PlanDedupedAndCapped ==
    (rret # <<>> /\ rret[1].op = "plan_references")
    => LET plan == rret[1].plan IN
       /\ \A i, j \in 1..Len(plan.cross_repo_edges) :
             plan.cross_repo_edges[i] = plan.cross_repo_edges[j] => i = j
       /\ Len(plan.cross_repo_edges) <= MAX_CROSS_REPO_EDGES_PER_QUERY
       /\ Len(plan.shard_ids) <= MAX_SHARDS_PER_QUERY

(***************************************************************************)
(* C34: after any sequence of replace_file_symbols, replace_file_edges,    *)
(* rename_file and delete_file_graph calls, every stored edge endpoint of  *)
(* type 'symbol' refers to a symbol id that exists.                        *)
(***************************************************************************)
C34_NoDanglingEdges ==
    (\A w \in Conns : spc[w] = "idle")
    => \A e \in edges : /\ FkSymbolOk(symbols, e.src)
                        /\ FkSymbolOk(symbols, e.tgt)

(***************************************************************************)
(* C35: context BFS expansion never records more nodes than the node cap:  *)
(* the map expand returns has at most max_nodes entries (seeds included),  *)
(* and every recorded depth is at most the expansion depth.                *)
(***************************************************************************)
C35_ReachedWithinCap ==
    xret # <<>>
    => /\ Cardinality(DOMAIN xret[1]) <= xmaxNodes
       /\ \A n \in DOMAIN xret[1] : xret[1][n] <= xdepth

(***************************************************************************)
(* C36: on any finite edge set, including cycles and self-calls, the       *)
(* references walk terminates, reports each symbol at most once, and never *)
(* reports the start symbol itself.                                        *)
(***************************************************************************)
ReferencesReport ==
    /\ tret # <<>>
    /\ tret[1].engine = "references"
    /\ tret[1].error = ""

OncePerSymbol ==
    ReferencesReport
    => LET entries == tret[1].callers IN
       /\ \A i, j \in 1..Len(entries) : entries[i].id = entries[j].id => i = j
       /\ \A i \in 1..Len(entries) : entries[i].id # tret[1].target[1]

C36_WalkTerminatesOncePerSymbol ==
    /\ []OncePerSymbol
    /\ (tpc = "loop" /\ tengine = "references") ~> (tpc = "idle")

\* C36: the report of a walk over the graph of self-calls and mutual calls
\* that went around the cycle: both callers of the start symbol's component
\* are reported.
C36_Witness ==
    /\ ReferencesReport
    /\ ttable = SelfCallTable
    /\ tret[1].target = <<1>>
    /\ Len(tret[1].callers) = 2

(***************************************************************************)
(* C37: in a data-flow trace, in every direction mode including 'both',    *)
(* each node carries exactly one role, the target is labelled target,      *)
(* every node labelled upstream is a transitive caller of the target and   *)
(* every node labelled downstream is a transitive callee of the target     *)
(* within the clamped depth.                                               *)
(***************************************************************************)
\* The symbols that reach one of `ids` by at most d calls, and the symbols
\* reached from one of `ids` by at most d calls.
RECURSIVE CallersWithin(_, _, _)
CallersWithin(tbl, ids, d) ==
    IF d = 0 THEN ids
    ELSE CallersWithin(tbl,
             ids \cup {tbl[i][1] : i \in {j \in 1..Len(tbl) : tbl[j][2] \in ids}},
             d - 1)

RECURSIVE CalleesWithin(_, _, _)
CalleesWithin(tbl, ids, d) ==
    IF d = 0 THEN ids
    ELSE CalleesWithin(tbl,
             ids \cup {tbl[i][2] : i \in {j \in 1..Len(tbl) : tbl[j][1] \in ids}},
             d - 1)

C37_RolesMatchDirection ==
    flow.ret # <<>>
    => LET r == flow.ret[1] IN
       /\ \A n \in DOMAIN r.nodes :
             r.nodes[n] \in {"target", "upstream", "downstream"}
       /\ r.nodes[r.target_id] = "target"
       /\ \A n \in DOMAIN r.nodes :
             /\ r.nodes[n] = "upstream"
                => n \in CallersWithin(r.table, {r.target_id}, r.max_depth)
             /\ r.nodes[n] = "downstream"
                => n \in CalleesWithin(r.table, {r.target_id}, r.max_depth)

(***************************************************************************)
(* C38: a failing FTS statement never fails the enclosing operation: no    *)
(* call of migrate_schema returns an error raised by one of the statements *)
(* that rebuild symbol_fts in migrate_to_v2.                               *)
(***************************************************************************)
C38_FtsFailureNeverFails ==
    \A i \in 1..Len(mret) :
        ~mret[i].ok => mret[i].error \notin SeqRange(StepStatements(2))

(***************************************************************************)
(* C40: the parameters build_parameters returns are numbered 0, 1, ...,    *)
(* n-1 in order of appearance, whatever chunks were skipped.               *)
(***************************************************************************)
C40_PositionsConsecutive ==
    extract.pc = "built" =>
        \A i \in 1..Len(extract.parameters) :
            extract.parameters[i].position = i - 1

====
